---- MODULE Spec2Model ----
(***************************************************************************)
(* Model of getoutreach/goql: the struct-tag parser, the field-tree        *)
(* builder, the argument collector and the sparse-fieldset renderer of     *)
(* query.go, with the helpers of util.go and the Fields type.              *)
(*                                                                         *)
(* Go strings are sequences of one-character strings, so that splitting,   *)
(* trimming, regular-expression matching and formatting are computed       *)
(* character by character as the code computes them.                       *)
(*                                                                         *)
(* src/query.go holds two revisions of the package.  rev = "A" is the      *)
(* first one (field.tokenizeWithFields, marshal at lines 586-666), rev =   *)
(* "B" the second one (Field.Tokenize, marshal at lines 1189-1273, which   *)
(* rewrites the root of the cached tree).                                  *)
(***************************************************************************)
EXTENDS Integers, Sequences, FiniteSets, TLC

VARIABLES
    rev,      \* which revision of query.go is the program: "A" or "B"
    typ,      \* the type of the value handed to MarshalQuery / MarshalMutation
    fs,       \* the Fields value the caller holds (nil or a map)
    cache,    \* the package-level cache: root type -> built field tree
    res,      \* the last marshal call: its arguments and what it returned
    tagIn,    \* the clauses of the tag handed to parseTag
    tagOut,   \* what parseTag returned for tagIn
    heap,     \* the Fields maps the caller of Union has made: id -> content
    un,       \* the last Union call: its arguments and what it returned
    wk,       \* the walk of one marshal call, one call of walker at a time
    procs,    \* the goroutines inside marshal: where each is and what it holds
    objs,     \* the field trees the goroutines have built: pointer -> tree
    ccache,   \* the cache the goroutines share: root type -> pointer
    call      \* one call of a helper function: its arguments and its result

vars == <<rev, typ, fs, cache, res, tagIn, tagOut, heap, un, wk, procs, objs, ccache,
          call>>

----------------------------------------------------------------------------
(* Bounds *)

\* Largest number of entries (at all depths) of a Fields value the caller builds.
MaxEntries == 2

\* Largest number of comma-separated clauses of a tag handed to parseTag.
MaxClauses == 3

\* Largest number of entries (at all depths, in all the Fields values) the
\* caller of Union stores.
MaxUnionEntries == 3

\* Largest number of calls of walker that have not returned: the stack of
\* the goroutine.
MaxStack == 6

----------------------------------------------------------------------------
(* Characters and strings *)

Lowers == <<"a","b","c","d","e","f","g","h","i","j","k","l","m",
            "n","o","p","q","r","s","t","u","v","w","x","y","z">>

Uppers == <<"A","B","C","D","E","F","G","H","I","J","K","L","M",
            "N","O","P","Q","R","S","T","U","V","W","X","Y","Z">>

Digits == {"0","1","2","3","4","5","6","7","8","9"}

Range(s) == {s[i] : i \in DOMAIN s}

\* unicode.IsLetter on ASCII
IsLetter(c) == c \in Range(Lowers) \cup Range(Uppers)

\* the class \w of Go's regexp package
IsWord(c) == IsLetter(c) \/ c \in Digits \/ c = "_"

\* unicode.IsSpace on ASCII
IsSpace(c) == c \in {" ", "\t", "\n", "\r"}

ToLower(c) ==
    IF \E i \in DOMAIN Uppers : Uppers[i] = c
    THEN Lowers[CHOOSE i \in DOMAIN Uppers : Uppers[i] = c]
    ELSE c

ToUpper(c) ==
    IF \E i \in DOMAIN Lowers : Lowers[i] = c
    THEN Uppers[CHOOSE i \in DOMAIN Lowers : Lowers[i] = c]
    ELSE c

\* s[i:] of Go, for the 1-based position i
From(s, i) == SubSeq(s, i, Len(s))

\* strings.HasPrefix
HasPrefix(s, p) == Len(s) >= Len(p) /\ SubSeq(s, 1, Len(p)) = p

\* strings.Index for a one-character needle; 0 when absent (Go: -1)
IndexOf(s, c) ==
    IF \E i \in DOMAIN s : s[i] = c
    THEN CHOOSE i \in DOMAIN s : s[i] = c /\ \A j \in 1..(i-1) : s[j] # c
    ELSE 0

\* strings.TrimSpace
TrimSpace(s) ==
    IF \A i \in DOMAIN s : IsSpace(s[i]) THEN <<>>
    ELSE LET lo == CHOOSE i \in DOMAIN s :
                       ~IsSpace(s[i]) /\ \A j \in 1..(i-1) : IsSpace(s[j])
             hi == CHOOSE i \in DOMAIN s :
                       ~IsSpace(s[i]) /\ \A j \in (i+1)..Len(s) : IsSpace(s[j])
         IN  SubSeq(s, lo, hi)

\* strings.Trim(s, "()")
TrimParens(s) ==
    LET P(c) == c \in {"(", ")"}
    IN  IF \A i \in DOMAIN s : P(s[i]) THEN <<>>
        ELSE LET lo == CHOOSE i \in DOMAIN s :
                           ~P(s[i]) /\ \A j \in 1..(i-1) : P(s[j])
                 hi == CHOOSE i \in DOMAIN s :
                           ~P(s[i]) /\ \A j \in (i+1)..Len(s) : P(s[j])
             IN  SubSeq(s, lo, hi)

\* strings.Join
RECURSIVE Join(_, _)
Join(ss, sep) ==
    IF ss = <<>> THEN <<>>
    ELSE IF Len(ss) = 1 THEN ss[1]
    ELSE ss[1] \o sep \o Join(Tail(ss), sep)

\* the position after the longest run of \w characters that starts at i
RECURSIVE WordEnd(_, _)
WordEnd(s, i) ==
    IF i <= Len(s) /\ IsWord(s[i]) THEN WordEnd(s, i + 1) ELSE i

\* s has character c at position i
At(s, i, c) == i <= Len(s) /\ s[i] = c

\* F applied to the value v: a local variable of the code, assigned once
With(v, F(_)) == F(v)

----------------------------------------------------------------------------
(* Data types of query.go *)

\* token{} : the zero value
ZeroToken == [Kind |-> <<>>, Name |-> <<>>, Arg |-> <<>>]

\* declaration{} : the zero value
ZeroDecl == [Name |-> <<>>, Alias |-> <<>>, Tokens |-> <<>>, Template |-> <<>>]

\* field{} : the zero value
ZeroField == [Decl |-> ZeroDecl, Directives |-> <<>>, Fields |-> <<>>, Keep |-> FALSE]

structTag == <<"g","o","q","l">>
keepTag == <<"k","e","e","p">>
directiveAlias == <<"a","l","i","a","s">>
directiveSkip == <<"s","k","i","p">>
directiveInclude == <<"i","n","c","l","u","d","e">>
BooleanKind == <<"B","o","o","l","e","a","n","!">>

----------------------------------------------------------------------------
(* Regular expressions of query.go *)

\* reName = ^\w+$
reName_Match(s) == Len(s) > 0 /\ \A i \in DOMAIN s : IsWord(s[i])

\* the position after an optional character c at position i
Opt(s, i, c) == IF At(s, i, c) THEN i + 1 ELSE i

\* reParam = (?P<name>\w+):\$(?P<arg>\w+)<(?P<kind>\[?\w+!?]?)> anchored at
\* position i, where the name is the longest run of \w that starts at i:
\* n1, a1, k2 and k4 are the positions after the name, the argument, the
\* word of the kind and the kind.
reParam_At(s, i) ==
    With(WordEnd(s, i), LAMBDA n1 :
    With(WordEnd(s, n1 + 2), LAMBDA a1 :
    With(WordEnd(s, Opt(s, a1 + 1, "[")), LAMBDA k2 :
    With(Opt(s, Opt(s, k2, "!"), "]"), LAMBDA k4 :
        IF /\ n1 > i
           /\ At(s, n1, ":") /\ At(s, n1 + 1, "$")
           /\ a1 > n1 + 2
           /\ At(s, a1, "<")
           /\ k2 > Opt(s, a1 + 1, "[")
           /\ At(s, k4, ">")
        THEN [ok |-> TRUE, next |-> k4 + 1,
              name |-> SubSeq(s, i, n1 - 1),
              arg  |-> SubSeq(s, n1 + 2, a1 - 1),
              kind |-> SubSeq(s, a1 + 1, k4 - 1)]
        ELSE [ok |-> FALSE, next |-> i, name |-> <<>>, arg |-> <<>>,
              kind |-> <<>>]))))

\* (?:\w+:\$\w+<\[?\w+!?]?>,?)* from position i: the position after the
\* last repetition
RECURSIVE ParamsEnd(_, _)
ParamsEnd(s, i) ==
    With(reParam_At(s, i), LAMBDA p :
        IF ~p.ok THEN i ELSE ParamsEnd(s, Opt(s, p.next, ",")))

\* reDecl = ^(?P<name>\w+)(?P<args>\((?:\w+:\$\w+<\[?\w+!?]?>,?)*\))$
reDecl_Find(s) ==
    With(WordEnd(s, 1), LAMBDA n1 :
    With(ParamsEnd(s, n1 + 1), LAMBDA pe :
        IF n1 > 1 /\ At(s, n1, "(") /\ At(s, pe, ")") /\ pe = Len(s)
        THEN [ok |-> TRUE, name |-> SubSeq(s, 1, n1 - 1), args |-> From(s, n1)]
        ELSE [ok |-> FALSE, name |-> <<>>, args |-> <<>>]))

reDecl_Match(s) == reDecl_Find(s).ok

\* reDirective = ^@(?P<name>\w+)(?P<arg>\(\$?\w+\))$
reDirective_Find(s) ==
    With(WordEnd(s, 2), LAMBDA n1 :
    With(WordEnd(s, Opt(s, n1 + 1, "$")), LAMBDA a1 :
        IF /\ At(s, 1, "@") /\ n1 > 2
           /\ At(s, n1, "(")
           /\ a1 > Opt(s, n1 + 1, "$")
           /\ At(s, a1, ")") /\ a1 = Len(s)
        THEN [ok |-> TRUE, name |-> SubSeq(s, 2, n1 - 1), arg |-> From(s, n1)]
        ELSE [ok |-> FALSE, name |-> <<>>, arg |-> <<>>]))

reDirective_Match(s) == reDirective_Find(s).ok

\* reParam.FindAllStringSubmatch(s, -1): the leftmost non-overlapping matches
RECURSIVE reParam_FindAll(_, _)
reParam_FindAll(s, i) ==
    IF i > Len(s) THEN <<>>
    ELSE With(reParam_At(s, i), LAMBDA p :
             IF p.ok THEN <<p>> \o reParam_FindAll(s, p.next)
             ELSE IF IsWord(s[i]) THEN reParam_FindAll(s, WordEnd(s, i))
             ELSE reParam_FindAll(s, i + 1))

\* the fn of parseDecl's ReplaceAllStringFunc: a parameter is cut at its
\* first "["
cutKind(param) ==
    With(IndexOf(param, "["), LAMBDA b :
        IF b # 0 THEN SubSeq(param, 1, b - 1) ELSE param)

\* reParam.ReplaceAllStringFunc(s, fn) with the fn of parseDecl
RECURSIVE reParam_ReplaceAll(_, _)
reParam_ReplaceAll(s, i) ==
    IF i > Len(s) THEN <<>>
    ELSE With(reParam_At(s, i), LAMBDA p :
             IF p.ok
             THEN cutKind(SubSeq(s, i, p.next - 1))
                      \o reParam_ReplaceAll(s, p.next)
             ELSE IF IsWord(s[i])
             THEN With(WordEnd(s, i), LAMBDA e :
                      SubSeq(s, i, e - 1) \o reParam_ReplaceAll(s, e))
             ELSE <<s[i]>> \o reParam_ReplaceAll(s, i + 1))

----------------------------------------------------------------------------
(* Errors.  Every error is a record of the same shape: its kind and the    *)
(* name (tag, directive, variable or field) that its message holds.        *)

NoErr == [type |-> "none", name |-> <<>>]

Err(t, n) == [type |-> t, name |-> n]

----------------------------------------------------------------------------
(* The tag parser *)

\* splitTag: the loop over the runes of the tag
RECURSIVE splitTagLoop(_, _, _, _, _)
splitTagLoop(tag, i, sb, split, inArgs) ==
    IF i > Len(tag) THEN Append(split, sb)
    ELSE LET r == tag[i]
             in2 == IF r \in {"(", ")"} THEN ~inArgs ELSE inArgs
         IN  IF r = "," /\ ~in2
             THEN splitTagLoop(tag, i + 1, <<>>, Append(split, sb), in2)
             ELSE splitTagLoop(tag, i + 1, Append(sb, r), split, in2)

splitTag(tag) == splitTagLoop(tag, 1, <<>>, <<>>, FALSE)

parseDecl(s) ==
    With(reDecl_Find(s), LAMBDA matches :
    With(TrimParens(matches.args), LAMBDA params :
    With(reParam_FindAll(params, 1), LAMBDA paramMatches :
        [Name |-> matches.name, Alias |-> <<>>,
         Tokens |-> [k \in DOMAIN paramMatches |->
                        [Kind |-> paramMatches[k].kind,
                         Name |-> paramMatches[k].name,
                         Arg  |-> paramMatches[k].arg]],
         Template |-> reParam_ReplaceAll(params, 1)])))

parseDirective(s) ==
    With(reDirective_Find(s), LAMBDA matches :
    With(TrimParens(matches.arg), LAMBDA template :
        IF matches.name = directiveAlias
        THEN [err |-> NoErr,
              dir |-> [Type |-> matches.name, Token |-> ZeroToken,
                       Template |-> template]]
        ELSE IF matches.name \in {directiveInclude, directiveSkip}
        THEN [err |-> NoErr,
              dir |-> [Type |-> matches.name,
                       Token |-> IF HasPrefix(template, <<"$">>)
                                 THEN [Kind |-> BooleanKind, Name |-> <<>>,
                                       Arg |-> Tail(template)]
                                 ELSE ZeroToken,
                       Template |-> template]]
        ELSE [err |-> Err("unknown directive", matches.name),
              dir |-> [Type |-> <<>>, Token |-> ZeroToken, Template |-> <<>>]]))

\* the word characters in the order of their bytes
ByteOrder == <<"0","1","2","3","4","5","6","7","8","9">> \o Uppers \o <<"_">> \o Lowers

\* a < b for Go strings made of word characters
RECURSIVE StrLess(_, _)
StrLess(a, b) ==
    IF b = <<>> THEN FALSE
    ELSE IF a = <<>> THEN TRUE
    ELSE LET Ord(c) == CHOOSE i \in DOMAIN ByteOrder : ByteOrder[i] = c
         IN  IF Head(a) = Head(b) THEN StrLess(Tail(a), Tail(b))
             ELSE Ord(Head(a)) < Ord(Head(b))

\* sort.Slice(f.Directives, less by Type)
RECURSIVE sortDirectives(_)
sortDirectives(ds) ==
    IF ds = <<>> THEN <<>>
    ELSE With(sortDirectives(Tail(ds)), LAMBDA rest :
             SelectSeq(rest, LAMBDA e : StrLess(e.Type, Head(ds).Type))
                 \o <<Head(ds)>>
                 \o SelectSeq(rest, LAMBDA e : ~StrLess(e.Type, Head(ds).Type)))

\* parseTag: the loop over the items of splitTag(tag); st holds the locals
\* f and alias, and err once an item failed
RECURSIVE parseTagLoop(_, _, _, _)
parseTagLoop(tag, items, k, st) ==
    IF k > Len(items) THEN st
    ELSE With(TrimSpace(items[k]), LAMBDA item :
             IF item = <<>>
             THEN parseTagLoop(tag, items, k + 1, st)
             ELSE IF reName_Match(item) /\ item # keepTag
             THEN parseTagLoop(tag, items, k + 1,
                      [st EXCEPT !.f.Decl = [ZeroDecl EXCEPT !.Name = item]])
             ELSE IF reDecl_Match(item)
             THEN parseTagLoop(tag, items, k + 1,
                      [st EXCEPT !.f.Decl = parseDecl(item), !.f.Keep = TRUE])
             ELSE IF reDirective_Match(item)
             THEN With(parseDirective(item), LAMBDA pd :
                      IF pd.err # NoErr THEN [st EXCEPT !.err = pd.err]
                      ELSE IF pd.dir.Type = directiveAlias
                      THEN parseTagLoop(tag, items, k + 1,
                               [st EXCEPT !.alias = pd.dir.Template])
                      ELSE parseTagLoop(tag, items, k + 1,
                               [st EXCEPT !.f.Directives = Append(@, pd.dir)]))
             ELSE IF item = keepTag
             THEN parseTagLoop(tag, items, k + 1, [st EXCEPT !.f.Keep = TRUE])
             ELSE [st EXCEPT !.err = Err("failed to parse tag", tag)])

\* parseTag_dup with j never advanced: every directive is compared with the
\* first one
parseTag_dup_StuckJ(ds) ==
    IF \E i \in 2..Len(ds) : ds[i].Type = ds[1].Type
    THEN CHOOSE i \in 2..Len(ds) :
             /\ ds[i].Type = ds[1].Type
             /\ \A j \in 2..(i-1) : ds[j].Type # ds[1].Type
    ELSE 0

\* the check for duplicate directives (lines 377-384): the position of the
\* first directive that has the type of its predecessor, 0 if there is none
parseTag_dup(ds) ==
    IF \E i \in 2..Len(ds) : ds[i].Type = ds[i-1].Type
    THEN CHOOSE i \in 2..Len(ds) :
             /\ ds[i].Type = ds[i-1].Type
             /\ \A j \in 2..(i-1) : ds[j].Type # ds[j-1].Type
    ELSE 0

parseTag(tag) ==
    With(parseTagLoop(tag, splitTag(tag), 1,
                      [f |-> ZeroField, alias |-> <<>>, err |-> NoErr]),
         LAMBDA st :
        IF st.err # NoErr THEN [err |-> st.err, f |-> ZeroField]
        ELSE With(sortDirectives(st.f.Directives), LAMBDA sorted :
             With(parseTag_dup(sorted), LAMBDA d :
                 IF d # 0
                 THEN [err |-> Err("duplicate directive", sorted[d].Type),
                       f |-> ZeroField]
                 ELSE [err |-> NoErr,
                       f |-> [st.f EXCEPT !.Decl.Alias = st.alias,
                                          !.Directives = sorted]])))

----------------------------------------------------------------------------
(* util.go *)

\* toLowerCamelCase: the loop over in[1:]; sb is the builder
RECURSIVE toLowerCamelCaseLoop(_, _, _, _)
toLowerCamelCaseLoop(in, i, sb, capNextRune) ==
    IF i > Len(in) THEN sb
    ELSE LET r == in[i]
         IN  IF ~IsLetter(r) /\ (IsSpace(r) \/ r \in {"-", "_", "."})
             THEN toLowerCamelCaseLoop(in, i + 1, sb, TRUE)
             ELSE IF capNextRune
             THEN toLowerCamelCaseLoop(in, i + 1, Append(sb, ToUpper(r)), FALSE)
             ELSE toLowerCamelCaseLoop(in, i + 1, Append(sb, r), capNextRune)

\* specialStrings
specialStrings == [k \in {<<"I","D">>} |-> <<"i","d">>]

\* toLowerCamelCase without the table of special strings
toLowerCamelCase_NoSpecial(in) ==
    IF in = <<>> THEN in
    ELSE toLowerCamelCaseLoop(in, 2, <<ToLower(in[1])>>, FALSE)

toLowerCamelCase(in) ==
    IF in = <<>> THEN in
    ELSE IF in \in DOMAIN specialStrings THEN specialStrings[in]
    ELSE toLowerCamelCaseLoop(in, 2, <<ToLower(in[1])>>, FALSE)

\* stack: the items are fields, the top is the last one
stack_length(s) == Len(s)
stack_push(s, f) == Append(s, f)
stack_pop(s) == [front |-> s[Len(s)], items |-> SubSeq(s, 1, Len(s) - 1)]
stack_top(s) == s[Len(s)]
stack_apply(s, fn(_)) == IF Len(s) > 0 THEN [s EXCEPT ![Len(s)] = fn(@)] ELSE s

----------------------------------------------------------------------------
(* Go types, as reflect sees them.  A struct type has a name and fields;   *)
(* a pointer, slice or array type has an element type; any other kind is   *)
(* a scalar with a name.                                                   *)

StructT(name, fields) == [kind |-> "struct", name |-> name, fields |-> fields]
ElemT(kind, elem) == [kind |-> kind, name |-> <<>>, elem |-> elem]
ScalarT(kind, name) == [kind |-> kind, name |-> name]

\* reflect.StructField: Tag is the value of the goql key of the struct tag
StructField(name, type, tag) ==
    [Name |-> name, Type |-> type, Tag |-> tag, PkgPath |-> <<>>]

\* deref
RECURSIVE deref(_)
deref(t) == IF t.kind \in {"ptr", "slice"} THEN deref(t.elem) ELSE t

\* node{}
Node(name, type, tag) == [Name |-> name, Type |-> type, Tag |-> tag]

structNode(t) ==
    With(deref(t), LAMBDA st :
        IF st.kind # "struct"
        THEN [err |-> Err("expecting struct type", <<>>), n |-> Node(<<>>, st, <<>>)]
        ELSE [err |-> NoErr, n |-> Node(st.name, st, <<>>)])

listFields(st) ==
    With(SelectSeq(st.fields, LAMBDA fl : fl.PkgPath = <<>> /\ fl.Tag # <<"-">>),
         LAMBDA keep :
        [i \in DOMAIN keep |->
            Node(keep[i].Name, deref(keep[i].Type), keep[i].Tag)])

\* visitFn called with a node that gives every field the normalized name of
\* its struct field, whatever its tag says
visitFn_AlwaysDefault(st, n) ==
    With(parseTag(n.Tag), LAMBDA p :
        IF p.err # NoErr THEN [err |-> p.err, st |-> st]
        ELSE [err |-> NoErr,
              st |-> stack_push(st,
                         [p.f EXCEPT !.Decl.Name = toLowerCamelCase(n.Name)])])

\* visitFn of marshal, called with a node: parse its tag and push the field
visitFn(st, n) ==
    With(parseTag(n.Tag), LAMBDA p :
        IF p.err # NoErr THEN [err |-> p.err, st |-> st]
        ELSE IF p.f.Decl.Name = <<>>
        THEN [err |-> NoErr,
              st |-> stack_push(st,
                         [p.f EXCEPT !.Decl.Name = toLowerCamelCase(n.Name)])]
        ELSE [err |-> NoErr, st |-> stack_push(st, p.f)])

\* visitFn called with nil that puts the finished field before its siblings
visitFnNil_Prepends(st) ==
    IF stack_length(st) = 1 THEN st
    ELSE With(stack_pop(st), LAMBDA p :
             stack_apply(p.items,
                 LAMBDA f : [f EXCEPT !.Fields = <<p.front>> \o @]))

\* visitFn of marshal, called with nil: pop the finished field and append it
\* to its parent, except for the root
visitFnNil(st) ==
    IF stack_length(st) = 1 THEN st
    ELSE With(stack_pop(st), LAMBDA p :
             stack_apply(p.items,
                 LAMBDA f : [f EXCEPT !.Fields = Append(@, p.front)]))

\* walker, and its loop over a list of nodes that stops at the first error
RECURSIVE walker(_, _)
RECURSIVE walkerList(_, _, _)
walkerList(nodes, i, st) ==
    IF i > Len(nodes) THEN [err |-> NoErr, st |-> st]
    ELSE With(walker(nodes[i], st), LAMBDA r :
             IF r.err # NoErr THEN r ELSE walkerList(nodes, i + 1, r.st))

\* walker, case reflect.Slice, reflect.Array, reflect.Ptr: t is the
\* dereferenced element type
walkerElem(t, st) ==
    IF t.kind = "struct"
    THEN walkerList(listFields(t), 1, st)
    ELSE walker(Node(t.name, t, <<>>), st)

\* walker after visitFn(&n): the switch on the kind of the node's type, then
\* the deferred visitFn(nil)
walkerInner(n, st) ==
    With(IF n.Type.kind = "struct"
         THEN walkerList(listFields(n.Type), 1, st)
         ELSE IF n.Type.kind \in {"slice", "array", "ptr"}
         THEN walkerElem(deref(n.Type.elem), st)
         ELSE [err |-> NoErr, st |-> st],
         LAMBDA body :
        [err |-> body.err, st |-> visitFnNil(body.st)])

walker(n, st) ==
    With(visitFn(st, n), LAMBDA v :
        IF v.err # NoErr THEN v ELSE walkerInner(n, v.st))

\* walk that hands the root to walker whatever its kind
walk_NoStructCheck(t) == walker(structNode(t).n, <<>>)

walk(t) ==
    With(structNode(t), LAMBDA sn :
        IF sn.err # NoErr THEN [err |-> sn.err, st |-> <<>>]
        ELSE walker(sn.n, <<>>))

----------------------------------------------------------------------------
(* The argument collector *)

\* tokenize(tokens): "name: $arg" joined by ", "
tokenize(tokens) ==
    Join([k \in DOMAIN tokens |->
              tokens[k].Name \o <<":", " ", "$">> \o tokens[k].Arg],
         <<",", " ">>)

\* field.tokens / Field.Tokens
RECURSIVE tokens(_)
RECURSIVE tokensOfFields(_, _)
tokensOfFields(fields, i) ==
    IF i > Len(fields) THEN <<>>
    ELSE tokens(fields[i]) \o tokensOfFields(fields, i + 1)

tokens(f) ==
    With(SelectSeq(f.Directives, LAMBDA d : d.Token # ZeroToken), LAMBDA ds :
        f.Decl.Tokens \o [k \in DOMAIN ds |-> ds[k].Token]
            \o tokensOfFields(f.Fields, 1))

\* argsMapLoop without the comparison of the kinds: a variable that is met
\* again is skipped whatever its type
RECURSIVE argsMapLoop_NoKindCheck(_, _, _)
argsMapLoop_NoKindCheck(toks, i, argsMap) ==
    IF i > Len(toks) THEN [err |-> NoErr, argsMap |-> argsMap]
    ELSE IF \E k \in DOMAIN argsMap : argsMap[k].arg = toks[i].Arg
    THEN argsMapLoop_NoKindCheck(toks, i + 1, argsMap)
    ELSE argsMapLoop_NoKindCheck(toks, i + 1,
             Append(argsMap, [arg |-> toks[i].Arg, kind |-> toks[i].Kind]))

\* argsFromTokens, first loop: argsMap as the list of its entries in the
\* order of insertion, or the first conflict
RECURSIVE argsMapLoop(_, _, _)
argsMapLoop(toks, i, argsMap) ==
    IF i > Len(toks) THEN [err |-> NoErr, argsMap |-> argsMap]
    ELSE IF \E k \in DOMAIN argsMap : argsMap[k].arg = toks[i].Arg
    THEN IF toks[i].Kind # argsMap[CHOOSE k \in DOMAIN argsMap :
                                       argsMap[k].arg = toks[i].Arg].kind
         THEN [err |-> Err("cannot have more than one type", toks[i].Arg),
               argsMap |-> <<>>]
         ELSE argsMapLoop(toks, i + 1, argsMap)
    ELSE argsMapLoop(toks, i + 1,
             Append(argsMap, [arg |-> toks[i].Arg, kind |-> toks[i].Kind]))

\* the orders in which "for arg, kind := range argsMap" can visit a map
\* that holds n entries: Go leaves the iteration order of a map unspecified
rangeOrders(n) == Permutations(1..n)

\* argsFromTokens: the error, or the set of slices that the range over
\* argsMap can produce, each entry being "$arg: kind"
argsFromTokens(toks) ==
    With(argsMapLoop(toks, 1, <<>>), LAMBDA r :
        IF r.err # NoErr THEN [err |-> r.err, args |-> {}]
        ELSE [err |-> NoErr,
              args |-> {[k \in DOMAIN r.argsMap |->
                            <<"$">> \o r.argsMap[o[k]].arg \o <<":", " ">>
                                \o r.argsMap[o[k]].kind] :
                        o \in rangeOrders(Len(r.argsMap))}])

----------------------------------------------------------------------------
(* Fields: the sparse fieldset.  A value held in a Fields map, or handed   *)
(* to a renderer, is nil, a bool or a (non-nil) Fields map.                *)

NilV == [kind |-> "nil", b |-> FALSE, m |-> <<>>]
BoolV(b) == [kind |-> "bool", b |-> b, m |-> <<>>]
FieldsV(m) == [kind |-> "fields", b |-> FALSE, m |-> m]

\* ts[name] for a Fields map: nil when the key is absent
Lookup(ts, name) == IF name \in DOMAIN ts.m THEN ts.m[name] ELSE NilV

----------------------------------------------------------------------------
(* The renderers.  A renderer returns whether the field was written, the   *)
(* error, the text it wrote (out), and, as a record of the run, the set of *)
(* the fields it wrote (wr) and the field at which it failed (at), each    *)
(* field being named by its path of child positions from the root.         *)

Rendered(written, out, wr) ==
    [written |-> written, err |-> NoErr, at |-> <<>>, out |-> out, wr |-> wr]

Failed(type, name, path) ==
    [written |-> FALSE, err |-> Err(type, name), at |-> path, out |-> <<>>, wr |-> {}]

\* declaration_tokenize without the alias prefix
declaration_tokenize_NoAlias(d) ==
    IF d.Template # <<>>
    THEN d.Name \o <<"(">> \o tokenize(d.Tokens) \o <<")">>
    ELSE d.Name

\* declaration.tokenize / Declaration.Tokenize
declaration_tokenize(d) ==
    (IF d.Alias # <<>> THEN d.Alias \o <<":", " ">> ELSE <<>>)
    \o (IF d.Template # <<>>
        THEN d.Name \o <<"(">> \o tokenize(d.Tokens) \o <<")">>
        ELSE d.Name)

\* directive.tokenize / Directive.Tokenize
directive_tokenize(d) ==
    <<"@">> \o d.Type \o <<"(", "i", "f", ":", " ", "$">> \o d.Token.Arg \o <<")">>

\* the loop that writes " " and each directive
RECURSIVE directives_tokenize(_, _)
directives_tokenize(ds, i) ==
    IF i > Len(ds) THEN <<>>
    ELSE <<" ">> \o directive_tokenize(ds[i]) \o directives_tokenize(ds, i + 1)

\* ---- revision A ----

RECURSIVE tokenizeWithFields(_, _, _)
RECURSIVE tokenizeWithFieldsLoop(_, _, _, _, _, _)

\* the loop over f.Fields of tokenizeWithFields (lines 224-242): out and wr
\* accumulate what the children wrote
tokenizeWithFieldsLoop(f, fields, path, i, out, wr) ==
    IF i > Len(f.Fields) THEN Rendered(TRUE, out, wr)
    ELSE With(tokenizeWithFields(f.Fields[i],
                  IF fields.kind = "fields"
                  THEN Lookup(fields, f.Fields[i].Decl.Name) ELSE NilV,
                  Append(path, i)),
              LAMBDA r :
             IF r.err # NoErr THEN r
             ELSE tokenizeWithFieldsLoop(f, fields, path, i + 1,
                      out \o r.out \o (IF r.written THEN <<"\n">> ELSE <<>>),
                      wr \cup r.wr))

\* what tokenizeWithFields writes for the field itself: its declaration and
\* its directives (lines 208-217)
fieldHead(f) ==
    declaration_tokenize(f.Decl) \o directives_tokenize(f.Directives, 1)

tokenizeWithFields(f, fields, path) ==
    IF fields.kind = "bool" /\ Len(f.Fields) > 0
    THEN Failed("set to true has children fields", f.Decl.Name, path)
    ELSE IF fields.kind = "fields" /\ Len(f.Fields) = 0
    THEN Failed("set to a submap has no children fields", f.Decl.Name, path)
    ELSE IF ~(\/ (fields.kind = "bool" /\ fields.b)
              \/ fields.kind = "fields"
              \/ f.Keep)
    THEN Rendered(FALSE, <<>>, {})
    ELSE IF Len(f.Fields) > 0
    THEN With(tokenizeWithFieldsLoop(f, fields, path, 1, <<>>, {}), LAMBDA r :
             IF r.err # NoErr THEN r
             ELSE Rendered(TRUE,
                      fieldHead(f) \o <<" ", "{", "\n">> \o r.out \o <<"}">>,
                      {path} \cup r.wr))
    ELSE Rendered(TRUE, fieldHead(f), {path})

RECURSIVE field_tokenize(_, _, _)
RECURSIVE field_tokenizeLoop(_, _, _, _, _, _)
RECURSIVE tokenizeAsLeaf(_, _, _)

\* field_tokenizeLoop without the test for a nil fieldset: every child goes
\* through tokenizeWithFields
RECURSIVE field_tokenizeLoop_NoNilTest(_, _, _, _, _, _)
field_tokenizeLoop_NoNilTest(f, fields, path, i, out, wr) ==
    IF i > Len(f.Fields) THEN Rendered(TRUE, out, wr)
    ELSE With(tokenizeWithFields(f.Fields[i], fields, Append(path, i)),
              LAMBDA r :
             IF r.err # NoErr THEN r
             ELSE field_tokenizeLoop_NoNilTest(f, fields, path, i + 1,
                      out \o r.out \o (IF r.written THEN <<"\n">> ELSE <<>>),
                      wr \cup r.wr))

\* the loop over f.Fields of field.tokenize (lines 281-295)
field_tokenizeLoop(f, fields, path, i, out, wr) ==
    IF i > Len(f.Fields) THEN Rendered(TRUE, out, wr)
    ELSE With(IF fields.kind = "nil"
              THEN tokenizeAsLeaf(f.Fields[i], NilV, Append(path, i))
              ELSE tokenizeWithFields(f.Fields[i], fields, Append(path, i)),
              LAMBDA r :
             IF r.err # NoErr THEN r
             ELSE field_tokenizeLoop(f, fields, path, i + 1,
                      out \o r.out \o (IF r.written THEN <<"\n">> ELSE <<>>),
                      wr \cup r.wr))

\* field.tokenize
field_tokenize(f, fields, path) ==
    IF Len(f.Fields) > 0
    THEN With(field_tokenizeLoop(f, fields, path, 1, <<>>, {}), LAMBDA r :
             IF r.err # NoErr THEN r
             ELSE Rendered(TRUE,
                      directives_tokenize(f.Directives, 1)
                          \o <<" ", "{", "\n">> \o r.out \o <<"}">>,
                      r.wr))
    ELSE Rendered(TRUE, directives_tokenize(f.Directives, 1), {})

tokenizeAsLeaf(f, fields, path) ==
    With(field_tokenize(f, fields, path), LAMBDA r :
        IF r.err # NoErr THEN r
        ELSE Rendered(TRUE, declaration_tokenize(f.Decl) \o r.out,
                      {path} \cup r.wr))

tokenizeAsRoot(f, declName, fields) ==
    With(field_tokenize(f, fields, <<>>), LAMBDA r :
        IF r.err # NoErr THEN r
        ELSE Rendered(TRUE, declName \o r.out, {<<>>} \cup r.wr))

\* ---- revision B ----

RECURSIVE Tokenize(_, _, _)
RECURSIVE TokenizeLoop(_, _, _, _, _, _)

\* the loop over f.Fields of Field.Tokenize (lines 888-898)
TokenizeLoop(f, fields, path, i, out, wr) ==
    IF i > Len(f.Fields) THEN Rendered(TRUE, out, wr)
    ELSE With(Tokenize(f.Fields[i], fields, Append(path, i)), LAMBDA r :
             IF r.err # NoErr THEN r
             ELSE TokenizeLoop(f, fields, path, i + 1,
                      out \o r.out \o (IF r.written THEN <<"\n">> ELSE <<>>),
                      wr \cup r.wr))

\* Field.Tokenize once the entry of the field is known: desired is
\* fields[f.Decl.Name], or nil when the field has Keep, fields is nil or the
\* entry is absent; write is the local of that name
TokenizeDesired(f, fields, path, desired, write) ==
    IF desired.kind = "bool" /\ desired.b /\ Len(f.Fields) > 0
    THEN Failed("set to true has children fields", f.Decl.Name, path)
    ELSE IF desired.kind = "fields" /\ Len(f.Fields) = 0
    THEN Failed("set to a submap has no children fields", f.Decl.Name, path)
    ELSE IF ~write THEN Rendered(FALSE, <<>>, {})
    ELSE IF Len(f.Fields) > 0
    THEN With(TokenizeLoop(f, IF desired.kind = "fields" THEN desired ELSE fields,
                           path, 1, <<>>, {}),
              LAMBDA r :
             IF r.err # NoErr THEN r
             ELSE Rendered(TRUE,
                      fieldHead(f) \o <<" ", "{", "\n">> \o r.out \o <<"}">>,
                      {path} \cup r.wr))
    ELSE Rendered(TRUE, fieldHead(f), {path})

\* Field.Tokenize
Tokenize(f, fields, path) ==
    IF f.Keep \/ fields.kind = "nil"
    THEN TokenizeDesired(f, fields, path, NilV, TRUE)
    ELSE With(Lookup(fields, f.Decl.Name), LAMBDA desired :
             TokenizeDesired(f, fields, path, desired,
                 (desired.kind = "bool" /\ desired.b) \/ desired.kind = "fields"))

----------------------------------------------------------------------------
(* marshal *)

query == <<"q","u","e","r","y">>
mutation == <<"m","u","t","a","t","i","o","n">>

\* what a marshal call returns (text, err), with the tree it rendered
\* (tree), the operation header's variable list (hdr), the fields written
\* (wr), the field at which rendering failed (at), and the cache after the
\* call
Outcome(text, err, tree, hdr, r, c) ==
    [text |-> text, err |-> err, tree |-> tree, hdr |-> hdr, wr |-> r.wr,
     at |-> r.at, cache |-> c]

\* the name of the root of the operation: the wrapper, followed by the
\* arguments in parentheses when there are any (lines 650-656)
declNameOf(wrapper, args) ==
    IF Len(args) > 0
    THEN wrapper \o <<"(">> \o Join(args, <<",", " ">>) \o <<")">>
    ELSE wrapper

\* marshal of revision A (lines 586-666), from the arguments once operation
\* is set: args is one result of argsFromTokens
marshalRenderA(operation, wrapper, fields, args, c) ==
    With(tokenizeAsRoot(operation, declNameOf(wrapper, args), fields), LAMBDA r :
        Outcome(IF r.err = NoErr THEN r.out ELSE <<>>, r.err, operation,
                args, r, c))

\* marshal of revision B (lines 1189-1273), from the arguments once
\* operation is set: the root of the tree, which the cache holds by
\* pointer, is rewritten
marshalRenderB(rt, operation, wrapper, fields, args, c) ==
    With([operation EXCEPT !.Decl.Name = declNameOf(wrapper, args),
                           !.Keep = TRUE],
         LAMBDA op2 :
    With(Tokenize(op2, fields, <<>>), LAMBDA r :
        Outcome(IF r.err = NoErr THEN r.out ELSE <<>>, r.err, op2,
                args, r, [c EXCEPT ![rt] = op2])))

\* marshal once operation is set, from the cache or from a walk of the
\* type: c is the cache, which holds operation
marshalBuilt(rt, operation, wrapper, fields, c, r) ==
    With(argsFromTokens(tokens(operation)), LAMBDA a :
        IF a.err # NoErr
        THEN {Outcome(<<>>, a.err, operation, <<>>, Rendered(FALSE, <<>>, {}), c)}
        ELSE IF r = "A"
        THEN {marshalRenderA(operation, wrapper, fields, args, c) :
                  args \in a.args}
        ELSE {marshalRenderB(rt, operation, wrapper, fields, args, c) :
                  args \in a.args})

\* marshal: the set of the outcomes of one call, for the type rt whose
\* description is t, under the cache c and the revision r
marshal(rt, t, wrapper, fields, c, r) ==
    IF rt \in DOMAIN c
    THEN marshalBuilt(rt, c[rt], wrapper, fields, c, r)
    ELSE With(walk(t), LAMBDA w :
             IF w.err # NoErr
             THEN {Outcome(<<>>, w.err, ZeroField, <<>>,
                           Rendered(FALSE, <<>>, {}), c)}
             ELSE marshalBuilt(rt, stack_top(w.st), wrapper, fields,
                               c @@ (rt :> stack_top(w.st)), r))

----------------------------------------------------------------------------
(* The types handed to marshal.  Field names are one letter long, so that  *)
(* the keys of the fieldsets stay few: M is the top-level model, A a       *)
(* scalar, N a nested struct with a scalar A of its own.                   *)

String == ScalarT("string", <<"s","t","r","i","n","g">>)

KeepTagIf(b) == IF b THEN keepTag ELSE <<>>

\* struct{ M struct{ A string `ta`; N struct{ A string `tna` } `tn` } `tm` }
Shape(tm, ta, tn, tna) ==
    StructT(<<>>, <<
        StructField(<<"M">>,
            StructT(<<>>, <<
                StructField(<<"A">>, String, ta),
                StructField(<<"N">>,
                    StructT(<<>>, <<StructField(<<"A">>, String, tna)>>), tn)
            >>), tm)
    >>)

tagDeclI == <<"m","(","i",":","$","i","<","I","D","!",">",")">>
tagDeclPQ == <<"m","(","p",":","$","p","<","I",">",",","q",":","$","p","<","I",">",")">>
tagDeclPQbad == <<"m","(","p",":","$","p","<","I","!",">",",","q",":","$","p","<","I",">",")">>
tagSkipC == <<"@","s","k","i","p","(","$","c",")">>
tagSkipI == <<"@","s","k","i","p","(","$","i",")">>
tagSkipLit == <<"@","s","k","i","p","(","t",")">>
tagIncludeC == <<"@","i","n","c","l","u","d","e","(","$","c",")">>
tagAliasZ == <<"@","a","l","i","a","s","(","z",")">>

KeepTypes == [shape : {"keep"}, k : [1..4 -> BOOLEAN]]

OtherShapes == {"vars", "same", "conflictDirective", "conflictDecl", "leaf",
                "leafKeep", "notStruct", "scalar", "pointers", "badTag",
                "literal", "names"}

Types == KeepTypes \cup [shape : OtherShapes, k : {<<>>}]

\* the description of the type with the identity rt
GoType(rt) ==
    CASE rt.shape = "keep" ->
            Shape(KeepTagIf(rt.k[1]), KeepTagIf(rt.k[2]),
                  KeepTagIf(rt.k[3]), KeepTagIf(rt.k[4]))
      [] rt.shape = "vars" -> Shape(tagDeclI, tagSkipC, tagAliasZ, tagIncludeC)
      [] rt.shape = "same" -> Shape(tagDeclPQ, tagSkipC, tagSkipC, <<>>)
      [] rt.shape = "conflictDirective" -> Shape(tagDeclI, <<>>, <<>>, tagSkipI)
      [] rt.shape = "conflictDecl" -> Shape(tagDeclPQbad, <<>>, <<>>, <<>>)
      [] rt.shape = "leaf" ->
            StructT(<<>>, <<StructField(<<"A">>, String, <<>>)>>)
      [] rt.shape = "leafKeep" ->
            StructT(<<>>, <<StructField(<<"A">>, String, keepTag)>>)
      [] rt.shape = "notStruct" -> ElemT("ptr", String)
      [] rt.shape = "scalar" -> String
      [] rt.shape = "pointers" ->
            ElemT("ptr", StructT(<<"Q">>, <<
                StructField(<<"M">>,
                    ElemT("slice", ElemT("ptr",
                        StructT(<<"T">>, <<StructField(<<"A">>, String, <<>>)>>))),
                    keepTag)>>))
      [] rt.shape = "badTag" -> Shape(<<>>, <<"a","-","b">>, <<>>, <<>>)
      [] rt.shape = "literal" -> Shape(keepTag, tagSkipLit, <<>>, <<>>)
      [] rt.shape = "names" ->
            StructT(<<>>, <<
                StructField(<<"M">>,
                    StructT(<<>>, <<
                        StructField(<<"I","D">>, String, <<>>),
                        StructField(<<"A">>, String, <<"n">>),
                        StructField(<<"E">>, String, <<"X", "y">>),
                        StructField(<<"B">>, String, <<"-">>),
                        [StructField(<<"c">>, String, <<>>)
                            EXCEPT !.PkgPath = <<"g","o","q","l">>]
                    >>), <<>>)
            >>)

----------------------------------------------------------------------------
(* The fieldsets the caller builds *)

Keys == {<<"m">>, <<"a">>, <<"n">>}

\* the values the caller stores under a key
EntryValues == {BoolV(TRUE), BoolV(FALSE), FieldsV(<<>>)}

EntryPaths == UNION {[1..d -> Keys] : d \in 1..MaxEntries}

\* the number of entries of a fieldset, at all depths
RECURSIVE Size(_)
RECURSIVE SizeSum(_, _)
SizeSum(v, ks) ==
    IF ks = {} THEN 0
    ELSE LET k == CHOOSE x \in ks : TRUE
         IN  1 + Size(v.m[k]) + SizeSum(v, ks \ {k})

Size(v) == IF v.kind = "fields" THEN SizeSum(v, DOMAIN v.m) ELSE 0

\* the caller can run v[path[1]]...[path[n]] = x for a key that v does not
\* hold yet: every map on the way exists
RECURSIVE CanSet(_, _)
CanSet(v, path) ==
    /\ v.kind = "fields"
    /\ IF Len(path) = 1 THEN path[1] \notin DOMAIN v.m
       ELSE path[1] \in DOMAIN v.m /\ CanSet(v.m[path[1]], Tail(path))

\* v after v[path[1]]...[path[n]] = x
RECURSIVE SetAt(_, _, _)
SetAt(v, path, x) ==
    IF Len(path) = 1 THEN FieldsV(v.m @@ (path[1] :> x))
    ELSE FieldsV([v.m EXCEPT ![path[1]] = SetAt(@, Tail(path), x)])

----------------------------------------------------------------------------
(* The tags handed to parseTag: up to MaxClauses clauses joined by commas. *)

clName1 == <<"n">>
clName2 == <<"o">>
clDecl1 == <<"m","(","a",":","$","a","<","I",">",")">>
clDecl2 == <<"q","(","b",":","$","b","<","[","I","!","]",">",",","c",":","$","c","<","I",">",")">>
clAlias1 == <<"@","a","l","i","a","s","(","x",")">>
clAlias2 == <<"@","a","l","i","a","s","(","y",")">>
clSkip1 == <<"@","s","k","i","p","(","$","a",")">>
clSkip2 == <<" ","@","s","k","i","p","(","b",")">>
clInclude1 == <<"@","i","n","c","l","u","d","e","(","$","a",")">>
clInclude2 == <<"@","i","n","c","l","u","d","e","(","$","c",")">>
clKeep == <<"k","e","e","p">>
clEmpty == <<>>
clBad == <<"a","-","b">>
clUnknown == <<"@","f","o","o","(","a",")">>

NameClauses == {clName1, clName2}
DeclClauses == {clDecl1, clDecl2}
AliasClauses == {clAlias1, clAlias2}
SkipClauses == {clSkip1, clSkip2}
IncludeClauses == {clInclude1, clInclude2}
KeepClauses == {clKeep}

\* the clauses that the tag grammar of the README accepts
ValidClauses ==
    NameClauses \cup DeclClauses \cup AliasClauses \cup SkipClauses
        \cup IncludeClauses \cup KeepClauses \cup {clEmpty}

Clauses == ValidClauses \cup {clBad, clUnknown}

ClauseLists == UNION {[1..k -> Clauses] : k \in 0..MaxClauses}

\* the number of clauses of the list cs that belong to the set S
CountIn(cs, S) == Cardinality({i \in DOMAIN cs : cs[i] \in S})

\* res before any marshal call
NoCall == [op |-> <<>>, fields |-> NilV, hit |-> FALSE, text |-> <<>>,
           err |-> NoErr, tree |-> ZeroField, hdr |-> <<>>, wr |-> {},
           at |-> <<>>]

\* the walk before marshal is called
NoWalk(rt) == [t |-> rt, pc |-> "idle", frames |-> <<>>, st |-> <<>>,
               err |-> NoErr]

\* tagOut before parseTag has returned
NotCalled == [err |-> Err("not called", <<>>), f |-> ZeroField]

----------------------------------------------------------------------------
(* Fields values on the heap (fields.go).  A Fields is a Go map, held by   *)
(* reference: heap[i] is the content of the map i, a function from its     *)
(* keys to a bool or to a reference to a map.  Union writes into the map   *)
(* of its first argument.                                                  *)

UBool(b) == [kind |-> "bool", b |-> b, id |-> 0]
URef(i) == [kind |-> "fields", b |-> FALSE, id |-> i]
UNil == [kind |-> "nil", b |-> FALSE, id |-> 0]

\* the keys of the maps, and the orders in which a range loop may see them
UKeys == {<<"a">>, <<"b">>}

UOrders == {<<<<"a">>, <<"b">>>>, <<<<"b">>, <<"a">>>>}

\* x[k] = v
MapStore(h, i, k, v) == [h EXCEPT ![i] = (k :> v) @@ @]

\* what a Union call gives back: the heap it leaves, the value it returns,
\* and whether it panicked
UnionRet(h, r, panic) == [h |-> h, r |-> r, panic |-> panic]

\* Union (fields.go lines 42-68) on the heap h; ord is the order in which
\* the range loops see the keys
RECURSIVE Union(_, _, _, _)
RECURSIVE UnionLoop(_, _, _, _, _)
\* the body of the loop that stores the opposite of a bool of y over a
\* value of x that is no Fields
UnionBody_Negates(h, x, y, ord, i, k, v) ==
    IF x.kind = "nil"
    THEN UnionRet(h, UNil, TRUE)
    ELSE IF k \notin DOMAIN h[x.id]
    THEN UnionLoop(MapStore(h, x.id, k, v), x, y, ord, i + 1)
    ELSE IF h[x.id][k].kind = "fields"
    THEN IF v.kind = "fields"
         THEN With(Union(h, h[x.id][k], v, ord), LAMBDA u :
                  IF u.panic THEN u
                  ELSE UnionLoop(MapStore(u.h, x.id, k, u.r), x, y, ord, i + 1))
         ELSE UnionLoop(h, x, y, ord, i + 1)
    ELSE UnionLoop(MapStore(h, x.id, k,
                            IF v.kind = "bool" THEN UBool(~v.b) ELSE v),
                   x, y, ord, i + 1)

\* the body of the loop that keeps the nested Fields of x and merges nothing
UnionBody_NoMerge(h, x, y, ord, i, k, v) ==
    IF x.kind = "nil"
    THEN UnionRet(h, UNil, TRUE)
    ELSE IF k \notin DOMAIN h[x.id]
    THEN UnionLoop(MapStore(h, x.id, k, v), x, y, ord, i + 1)
    ELSE IF h[x.id][k].kind = "fields"
    THEN UnionLoop(h, x, y, ord, i + 1)
    ELSE UnionLoop(MapStore(h, x.id, k, v), x, y, ord, i + 1)

\* the body of the loop that overwrites a value of x that is no Fields with
\* a Fields of y only, and keeps it when y holds a bool
UnionBody_KeepsBool(h, x, y, ord, i, k, v) ==
    IF x.kind = "nil"
    THEN UnionRet(h, UNil, TRUE)
    ELSE IF k \notin DOMAIN h[x.id]
    THEN UnionLoop(MapStore(h, x.id, k, v), x, y, ord, i + 1)
    ELSE IF h[x.id][k].kind = "fields"
    THEN IF v.kind = "fields"
         THEN With(Union(h, h[x.id][k], v, ord), LAMBDA u :
                  IF u.panic THEN u
                  ELSE UnionLoop(MapStore(u.h, x.id, k, u.r), x, y, ord, i + 1))
         ELSE UnionLoop(h, x, y, ord, i + 1)
    ELSE IF v.kind = "fields"
    THEN UnionLoop(MapStore(h, x.id, k, v), x, y, ord, i + 1)
    ELSE UnionLoop(h, x, y, ord, i + 1)

\* the body of the loop for the key k of y and its value v
UnionBody(h, x, y, ord, i, k, v) ==
    IF x.kind = "nil"
    THEN UnionRet(h, UNil, TRUE)
    ELSE IF k \notin DOMAIN h[x.id]
    THEN UnionLoop(MapStore(h, x.id, k, v), x, y, ord, i + 1)
    ELSE IF h[x.id][k].kind = "fields"
    THEN IF v.kind = "fields"
         THEN With(Union(h, h[x.id][k], v, ord), LAMBDA u :
                  IF u.panic THEN u
                  ELSE UnionLoop(MapStore(u.h, x.id, k, u.r), x, y, ord, i + 1))
         ELSE UnionLoop(h, x, y, ord, i + 1)
    ELSE UnionLoop(MapStore(h, x.id, k, v), x, y, ord, i + 1)

UnionLoop(h, x, y, ord, i) ==
    IF i > Len(ord) THEN UnionRet(h, x, FALSE)
    ELSE IF y.kind = "nil" \/ ord[i] \notin DOMAIN h[y.id]
    THEN UnionLoop(h, x, y, ord, i + 1)
    ELSE UnionBody(h, x, y, ord, i, ord[i], h[y.id][ord[i]])

Union(h, x, y, ord) == UnionLoop(h, x, y, ord, 1)

\* the maps that no map refers to: the Fields values the caller holds
Roots(h) ==
    {i \in DOMAIN h :
        \A j \in DOMAIN h : \A k \in DOMAIN h[j] : h[j][k] # URef(i)}

\* the number of entries of all the maps
RECURSIVE EntryCount(_, _)
EntryCount(h, i) ==
    IF i > Len(h) THEN 0 ELSE Cardinality(DOMAIN h[i]) + EntryCount(h, i + 1)

\* no helper function has been called
NoHelper == [fn |-> "none", in |-> <<>>, out |-> <<>>, done |-> FALSE]

\* the last Union call: its arguments, what it returned, whether it
\* panicked, the heap before it, and whether it is the outer call of
\* Union(x, Union(x, z)): the call before it returned and its result is y
NoUnion == [x |-> UNil, y |-> UNil, r |-> UNil, panic |-> FALSE,
            called |-> FALSE, pre |-> <<>>, outer |-> FALSE]

----------------------------------------------------------------------------
(* Specification SpecTag: parseTag applied to one tag. *)

InitTag ==
    /\ rev = "A"
    /\ typ = [shape |-> "leaf", k |-> <<>>]
    /\ fs = NilV
    /\ cache = <<>>
    /\ res = NoCall
    /\ tagIn \in ClauseLists
    /\ tagOut = NotCalled
    /\ heap = <<>>
    /\ un = NoUnion
    /\ wk = NoWalk(typ)
    /\ procs = <<>>
    /\ objs = <<>>
    /\ ccache = <<>>
    /\ call = NoHelper

ParseTag ==
    /\ tagOut = NotCalled
    /\ tagOut' = parseTag(Join(tagIn, <<",">>))
    /\ UNCHANGED <<rev, typ, fs, cache, res, tagIn, heap, un, wk, procs, objs, ccache, call>>

NextTag == ParseTag

SpecTag == InitTag /\ [][NextTag]_vars

ClausesValid == \A i \in DOMAIN tagIn : tagIn[i] \in ValidClauses

\* C3: parseTag fails with a duplicate-directive error whenever a tag of
\* well-formed clauses holds two skip directives or two include directives,
\* wherever they stand and whatever stands between them; a tag of well-formed
\* clauses with exactly one skip and one include parses successfully.
C3_DuplicateDirective ==
    (tagOut # NotCalled /\ ClausesValid) =>
        /\ (CountIn(tagIn, SkipClauses) >= 2 \/ CountIn(tagIn, IncludeClauses) >= 2)
              => /\ tagOut.err.type = "duplicate directive"
                 /\ tagOut.err.name \in {directiveSkip, directiveInclude}
        /\ (CountIn(tagIn, SkipClauses) = 1 /\ CountIn(tagIn, IncludeClauses) = 1)
              => /\ tagOut.err = NoErr
                 /\ Len(tagOut.f.Directives) = 2

C3_Witness ==
    /\ tagOut # NotCalled
    /\ Len(tagIn) = 3
    /\ tagIn[1] \in SkipClauses /\ tagIn[3] \in SkipClauses
    /\ tagIn[2] \in IncludeClauses
    /\ tagOut.err.type = "duplicate directive"

C3_WitnessOneEach ==
    /\ tagOut # NotCalled
    /\ CountIn(tagIn, SkipClauses) = 1 /\ CountIn(tagIn, IncludeClauses) = 1
    /\ tagOut.err = NoErr

\* C4: a tag that defines the same component more than once (two field-name
\* overrides, two declarations with arguments, two @alias, two keep, two
\* @include or two @skip clauses) is rejected with an error by parseTag.
C4_SameComponentOnce ==
    (/\ tagOut # NotCalled
     /\ \E S \in {NameClauses, DeclClauses, AliasClauses, KeepClauses,
                  IncludeClauses, SkipClauses} : CountIn(tagIn, S) >= 2)
        => tagOut.err # NoErr

----------------------------------------------------------------------------
(* Specification Spec: one process that builds a fieldset and marshals one *)
(* type with it, as a query or as a mutation, any number of times.         *)

Init ==
    /\ rev \in {"A", "B"}
    /\ typ \in Types
    /\ fs = NilV
    /\ cache = <<>>
    /\ res = NoCall
    /\ tagIn = <<>>
    /\ tagOut = NotCalled
    /\ heap = <<>>
    /\ un = NoUnion
    /\ wk = NoWalk(typ)
    /\ procs = <<>>
    /\ objs = <<>>
    /\ ccache = <<>>
    /\ call = NoHelper

\* the caller runs fs = Fields{}
MakeFields ==
    /\ fs = NilV
    /\ fs' = FieldsV(<<>>)
    /\ res' = NoCall
    /\ UNCHANGED <<rev, typ, cache, tagIn, tagOut, heap, un, wk, procs, objs, ccache, call>>

\* the caller stores true, false or an empty Fields under a new key of fs
\* or of a Fields nested in fs
SetEntry ==
    \E path \in EntryPaths, x \in EntryValues :
        /\ Size(fs) < MaxEntries
        /\ CanSet(fs, path)
        /\ fs' = SetAt(fs, path, x)
        /\ res' = NoCall
        /\ UNCHANGED <<rev, typ, cache, tagIn, tagOut, heap, un, wk, procs, objs, ccache, call>>

Call(wrapper) ==
    \E o \in marshal(typ, GoType(typ), wrapper, fs, cache, rev) :
        /\ res' = [op |-> wrapper, fields |-> fs, hit |-> typ \in DOMAIN cache,
                   text |-> o.text, err |-> o.err, tree |-> o.tree,
                   hdr |-> o.hdr, wr |-> o.wr, at |-> o.at]
        /\ cache' = o.cache
        /\ UNCHANGED <<rev, typ, fs, tagIn, tagOut, heap, un, wk, procs, objs, ccache, call>>

MarshalQuery == Call(query)

MarshalMutation == Call(mutation)

Next == MakeFields \/ SetEntry \/ MarshalQuery \/ MarshalMutation

Spec == Init /\ [][Next]_vars

Called == res.op # <<>>

----------------------------------------------------------------------------
(* Specification SpecUnion: a caller that makes two Fields values, fills   *)
(* them, and then calls Union on the values it holds.                      *)

InitUnion ==
    /\ rev = "A"
    /\ typ = [shape |-> "leaf", k |-> <<>>]
    /\ fs = NilV
    /\ cache = <<>>
    /\ res = NoCall
    /\ tagIn = <<>>
    /\ tagOut = NotCalled
    /\ heap = <<<<>>, <<>>>>
    /\ un = NoUnion
    /\ wk = NoWalk(typ)
    /\ procs = <<>>
    /\ objs = <<>>
    /\ ccache = <<>>
    /\ call = NoHelper

\* the caller runs fields[k] = true or fields[k] = false on a new key
SetBool ==
    \E i \in DOMAIN heap, k \in UKeys, b \in BOOLEAN :
        /\ ~un.called
        /\ EntryCount(heap, 1) < MaxUnionEntries
        /\ k \notin DOMAIN heap[i]
        /\ heap' = MapStore(heap, i, k, UBool(b))
        /\ UNCHANGED <<rev, typ, fs, cache, res, tagIn, tagOut, un, wk, procs, objs, ccache, call>>

\* the caller runs fields[k] = make(Fields) on a new key (fields.go line 127)
SetMap ==
    \E i \in DOMAIN heap, k \in UKeys :
        /\ ~un.called
        /\ EntryCount(heap, 1) < MaxUnionEntries
        /\ k \notin DOMAIN heap[i]
        /\ heap' = Append(MapStore(heap, i, k, URef(Len(heap) + 1)), <<>>)
        /\ UNCHANGED <<rev, typ, fs, cache, res, tagIn, tagOut, un, wk, procs, objs, ccache, call>>

\* the Fields values the caller can pass: the maps it holds, and nil
Held == {URef(i) : i \in Roots(heap)} \cup {UNil}

\* the caller runs Union(x, y)
CallUnion ==
    \E x \in Held, y \in Held, ord \in UOrders :
        /\ ~un.panic
        /\ With(Union(heap, x, y, ord), LAMBDA u :
               /\ heap' = u.h
               /\ un' = [x |-> x, y |-> y, r |-> u.r, panic |-> u.panic,
                         called |-> TRUE, pre |-> heap,
                         outer |-> un.called /\ x = un.x /\ y = un.r])
        /\ UNCHANGED <<rev, typ, fs, cache, res, tagIn, tagOut, wk, procs, objs, ccache, call>>

NextUnion == SetBool \/ SetMap \/ CallUnion

SpecUnion == InitUnion /\ [][NextUnion]_vars

----------------------------------------------------------------------------
(* Specification SpecWalk: the walk of marshal, one call of walker at a     *)
(* time.  walker calls itself for each node below the node it visits, so   *)
(* the walk holds one stack frame for each call that has not returned; the *)
(* goroutine's stack is limited, and a call beyond the limit ends the      *)
(* process.                                                                *)

\* the types that refer to themselves, unfolded d times:
\*   type T struct { N *T }
\*   type T struct { A string; K []T }
\*   type P struct { Q *Q } and type Q struct { P *P }
RECURSIVE SelfPtr(_)
SelfPtr(d) ==
    StructT(<<"T">>, <<
        StructField(<<"N">>,
            ElemT("ptr", IF d = 0 THEN String ELSE SelfPtr(d - 1)), <<>>)>>)

RECURSIVE SelfSlice(_)
SelfSlice(d) ==
    StructT(<<"T">>, <<
        StructField(<<"A">>, String, <<>>),
        StructField(<<"K">>,
            ElemT("slice", IF d = 0 THEN String ELSE SelfSlice(d - 1)), <<>>)>>)

RECURSIVE Mutual(_, _)
Mutual(d, name) ==
    StructT(name, <<
        StructField(IF name = <<"P">> THEN <<"Q">> ELSE <<"P">>,
            ElemT("ptr", IF d = 0 THEN String
                         ELSE Mutual(d - 1, IF name = <<"P">> THEN <<"Q">>
                                            ELSE <<"P">>)), <<>>)>>)

SelfTypes == [shape : {"selfPtr", "selfSlice", "mutual"}, k : {<<>>}]

\* the types handed to the walk: the ones above whose fields carry no
\* declaration or directive, and the ones that refer to themselves
PlainTypes ==
    {rt \in Types :
        \/ rt.shape \in {"leaf", "leafKeep", "notStruct", "scalar", "pointers",
                         "badTag", "names"}
        \/ rt.shape = "keep" /\ rt.k = <<FALSE, FALSE, FALSE, FALSE>>}

WalkTypes == PlainTypes \cup SelfTypes

\* the unfolding reaches below the deepest call the stack allows
WalkType(rt) ==
    CASE rt.shape = "selfPtr" -> SelfPtr(MaxStack + 1)
      [] rt.shape = "selfSlice" -> SelfSlice(MaxStack + 1)
      [] rt.shape = "mutual" -> Mutual(MaxStack + 1, <<"P">>)
      [] OTHER -> GoType(rt)

\* the nodes for which walker(n) calls walker, in order (lines 515-540)
walkerBelow(n) ==
    IF n.Type.kind = "struct"
    THEN listFields(n.Type)
    ELSE IF n.Type.kind \in {"slice", "array", "ptr"}
    THEN With(deref(n.Type.elem), LAMBDA t :
             IF t.kind = "struct" THEN listFields(t)
             ELSE <<Node(t.name, t, <<>>)>>)
    ELSE <<>>

\* a call walker(n, visitFn) made in the state w of the walk: the call takes
\* a frame, visits n (line 505) and holds the nodes below n to walk
walkerCall(w, n) ==
    IF Len(w.frames) = MaxStack
    THEN [w EXCEPT !.pc = "fatal"]
    ELSE With(visitFn(w.st, n), LAMBDA v :
             IF v.err # NoErr
             THEN [w EXCEPT !.pc = "error", !.err = v.err, !.frames = <<>>]
             ELSE [w EXCEPT !.pc = "walking", !.st = v.st,
                            !.frames = Append(@, walkerBelow(n))])

\* walk(s, visitFn) in the state w: structNode, then walker on the root
walkStart(w, t) ==
    With(structNode(t), LAMBDA sn :
        IF sn.err # NoErr
        THEN [w EXCEPT !.pc = "error", !.err = sn.err]
        ELSE walkerCall(w, sn.n))

InitWalk ==
    /\ rev \in {"A", "B"}
    /\ typ = [shape |-> "leaf", k |-> <<>>]
    /\ fs = NilV
    /\ cache = <<>>
    /\ res = NoCall
    /\ tagIn = <<>>
    /\ tagOut = NotCalled
    /\ heap = <<>>
    /\ un = NoUnion
    /\ wk \in {NoWalk(rt) : rt \in WalkTypes}
    /\ procs = <<>>
    /\ objs = <<>>
    /\ ccache = <<>>
    /\ call = NoHelper

\* marshal is called on a type that is not in the cache: walk (lines 547-554)
StartWalk ==
    /\ wk.pc = "idle"
    /\ wk' = walkStart(wk, WalkType(wk.t))
    /\ UNCHANGED <<rev, typ, fs, cache, res, tagIn, tagOut, heap, un, procs, objs, ccache, call>>

\* the running walker calls walker on the next node below its own
Descend ==
    /\ wk.pc = "walking"
    /\ wk.frames[Len(wk.frames)] # <<>>
    /\ wk' = walkerCall(
                [wk EXCEPT !.frames[Len(wk.frames)] = Tail(@)],
                Head(wk.frames[Len(wk.frames)]))
    /\ UNCHANGED <<rev, typ, fs, cache, res, tagIn, tagOut, heap, un, procs, objs, ccache, call>>

\* the running walker has walked every node below its own: the deferred
\* visitFn(nil) runs (lines 510-513) and the call returns
Return ==
    /\ wk.pc = "walking"
    /\ wk.frames[Len(wk.frames)] = <<>>
    /\ wk' = [wk EXCEPT !.st = visitFnNil(wk.st),
                        !.frames = SubSeq(@, 1, Len(@) - 1),
                        !.pc = IF Len(wk.frames) = 1 THEN "walked" ELSE @]
    /\ UNCHANGED <<rev, typ, fs, cache, res, tagIn, tagOut, heap, un, procs, objs, ccache, call>>

\* marshal after the walk: the arguments and the text (lines 625-665)
Finish ==
    /\ wk.pc = "walked"
    /\ \E o \in marshalBuilt(wk.t, stack_top(wk.st), query, NilV,
                             (wk.t :> stack_top(wk.st)), rev) :
           wk' = [wk EXCEPT !.pc = IF o.err = NoErr THEN "text" ELSE "error",
                            !.err = o.err]
    /\ UNCHANGED <<rev, typ, fs, cache, res, tagIn, tagOut, heap, un, procs, objs, ccache, call>>

NextWalk == StartWalk \/ Descend \/ Return \/ Finish

SpecWalk == InitWalk /\ [][NextWalk]_vars

\* a goroutine that can take a step takes one
SpecWalkFair == SpecWalk /\ WF_vars(NextWalk)

----------------------------------------------------------------------------
(* Specification SpecConc: two goroutines that call MarshalQuery and        *)
(* MarshalMutation on values of one type.  The trees live on a heap        *)
(* (objs), the cache holds a pointer to one (ccache), and a call is taken  *)
(* one access to the cache or to a shared tree at a time: cache.Load, the  *)
(* walk with cache.Store, argsFromTokens, the statements of lines          *)
(* 1254-1264 that write the root (revision B), and the rendering.          *)

\* the variables of the other specifications
notConc == <<rev, typ, fs, cache, res, tagIn, tagOut, heap, un, wk, call>>

ConcProcs == {"g1", "g2"}

\* the types the goroutines marshal: without variables, with variables,
\* with a variable of two types, and no struct
ConcTypes ==
    {rt \in Types :
        \/ rt.shape \in {"vars", "conflictDirective", "notStruct"}
        \/ rt.shape = "keep" /\ rt.k = <<TRUE, FALSE, FALSE, FALSE>>}

\* a goroutine outside marshal
NoProc == [pc |-> "idle", wrapper |-> <<>>, fields |-> NilV, operation |-> 0,
           args |-> <<>>, text |-> <<>>, err |-> NoErr]

InitConc ==
    /\ rev \in {"A", "B"}
    /\ typ \in ConcTypes
    /\ fs = NilV
    /\ cache = <<>>
    /\ res = NoCall
    /\ tagIn = <<>>
    /\ tagOut = NotCalled
    /\ heap = <<>>
    /\ un = NoUnion
    /\ wk = NoWalk(typ)
    /\ procs = [g \in ConcProcs |-> NoProc]
    /\ objs = <<>>
    /\ ccache = <<>>
    /\ call = NoHelper

\* the goroutine g calls MarshalQuery(q, fields) or MarshalMutation(q, fields)
CallMarshal(g) ==
    \E wrapper \in {query, mutation}, fields \in {NilV, FieldsV(<<>>)} :
        /\ procs[g].pc = "idle"
        /\ procs' = [procs EXCEPT ![g] = [NoProc EXCEPT !.pc = "load",
                                                        !.wrapper = wrapper,
                                                        !.fields = fields]]
        /\ UNCHANGED <<objs, ccache, notConc>>

\* cache.Load(rt) (line 591)
Load(g) ==
    /\ procs[g].pc = "load"
    /\ procs' = [procs EXCEPT ![g] =
                    IF typ \in DOMAIN ccache
                    THEN [@ EXCEPT !.pc = "args", !.operation = ccache[typ]]
                    ELSE [@ EXCEPT !.pc = "build"]]
    /\ UNCHANGED <<objs, ccache, notConc>>

\* the walk into a tree of the goroutine's own, and cache.Store(rt,
\* operation) (lines 597-631)
BuildStore(g) ==
    /\ procs[g].pc = "build"
    /\ UNCHANGED notConc
    /\ With(walk(GoType(typ)), LAMBDA w :
           IF w.err # NoErr
           THEN /\ procs' = [procs EXCEPT ![g].pc = "done", ![g].err = w.err]
                /\ UNCHANGED <<objs, ccache, notConc>>
           ELSE /\ objs' = Append(objs, stack_top(w.st))
                /\ ccache' = (typ :> Len(objs) + 1)
                /\ procs' = [procs EXCEPT ![g].pc = "args",
                                          ![g].operation = Len(objs) + 1])

\* argsFromTokens(operation.tokens()) (lines 635-638)
Args(g) ==
    /\ procs[g].pc = "args"
    /\ With(argsFromTokens(tokens(objs[procs[g].operation])), LAMBDA a :
           IF a.err # NoErr
           THEN procs' = [procs EXCEPT ![g].pc = "done", ![g].err = a.err]
           ELSE \E args \in a.args :
                    procs' = [procs EXCEPT
                                 ![g].pc = IF rev = "A" THEN "render" ELSE "name",
                                 ![g].args = args])
    /\ UNCHANGED <<objs, ccache, notConc>>

\* operation.Decl.Name = wrapper (line 1254)
SetName(g) ==
    /\ procs[g].pc = "name"
    /\ objs' = [objs EXCEPT ![procs[g].operation].Decl.Name = procs[g].wrapper]
    /\ procs' = [procs EXCEPT ![g].pc = "keep"]
    /\ UNCHANGED <<ccache, notConc>>

\* operation.Keep = true (line 1258)
SetKeep(g) ==
    /\ procs[g].pc = "keep"
    /\ objs' = [objs EXCEPT ![procs[g].operation].Keep = TRUE]
    /\ procs' = [procs EXCEPT ![g].pc = "format"]
    /\ UNCHANGED <<ccache, notConc>>

\* operation.Decl.Name = fmt.Sprintf("%s(%s)", operation.Decl.Name, ...)
\* when there are arguments (lines 1262-1264)
FormatName(g) ==
    /\ procs[g].pc = "format"
    /\ objs' = [objs EXCEPT ![procs[g].operation].Decl.Name =
                   declNameOf(@, procs[g].args)]
    /\ procs' = [procs EXCEPT ![g].pc = "render"]
    /\ UNCHANGED <<ccache, notConc>>

\* the rendering of the tree the goroutine holds (lines 650-665, and
\* 1266-1272)
Render(g) ==
    /\ procs[g].pc = "render"
    /\ With(IF rev = "A"
            THEN tokenizeAsRoot(objs[procs[g].operation],
                                declNameOf(procs[g].wrapper, procs[g].args),
                                procs[g].fields)
            ELSE Tokenize(objs[procs[g].operation], procs[g].fields, <<>>),
            LAMBDA r :
           procs' = [procs EXCEPT ![g].pc = "done",
                                  ![g].text = IF r.err = NoErr THEN r.out ELSE <<>>,
                                  ![g].err = r.err])
    /\ UNCHANGED <<objs, ccache, notConc>>

\* the caller takes the result
Done(g) ==
    /\ procs[g].pc = "done"
    /\ procs' = [procs EXCEPT ![g] = NoProc]
    /\ UNCHANGED <<objs, ccache, notConc>>

NextConc ==
    \/ \E g \in ConcProcs : CallMarshal(g)
    \/ \E g \in ConcProcs : Load(g)
    \/ \E g \in ConcProcs : BuildStore(g)
    \/ \E g \in ConcProcs : Args(g)
    \/ \E g \in ConcProcs : SetName(g)
    \/ \E g \in ConcProcs : SetKeep(g)
    \/ \E g \in ConcProcs : FormatName(g)
    \/ \E g \in ConcProcs : Render(g)
    \/ \E g \in ConcProcs : Done(g)

SpecConc == InitConc /\ [][NextConc]_vars

----------------------------------------------------------------------------
(* What the claims speak of, read off the tree and the fieldset alone.     *)

BuildErrors == {"expecting struct type", "failed to parse tag",
                "unknown directive", "duplicate directive"}

ConflictError == "cannot have more than one type"

ShapeErrors == {"set to true has children fields",
                "set to a submap has no children fields"}

\* the call built or found its tree
Built == Called /\ res.err.type \notin BuildErrors

\* the call reached the renderer
Rendering == Built /\ res.err.type # ConflictError

RECURSIVE FieldAt(_, _)
FieldAt(t, p) == IF p = <<>> THEN t ELSE FieldAt(t.Fields[Head(p)], Tail(p))

RECURSIVE AllPaths(_)
AllPaths(t) ==
    {<<>>} \cup UNION {{<<i>> \o q : q \in AllPaths(t.Fields[i])} : i \in DOMAIN t.Fields}

\* the fields of the tree other than the synthetic root
Inner(t) == AllPaths(t) \ {<<>>}

Parent(p) == SubSeq(p, 1, Len(p) - 1)

HasChildren(t, p) == Len(FieldAt(t, p).Fields) > 0

NameAt(t, p) == FieldAt(t, p).Decl.Name

\* what a scope holds under a name: nil when the scope is nil or lacks it
Entry(scope, name) == IF scope.kind = "fields" THEN Lookup(scope, name) ELSE NilV

Selects(e) == e = BoolV(TRUE) \/ e.kind = "fields"

\* the active scope of the field at p: the fieldset for the children of the
\* root; below a field whose own entry is a nested fieldset, that fieldset;
\* below any other field, the scope of that field
RECURSIVE ActiveScope(_, _, _)
ActiveScope(t, f, p) ==
    IF Len(p) <= 1 THEN f
    ELSE LET ps == ActiveScope(t, f, Parent(p))
             e == Entry(ps, NameAt(t, Parent(p)))
         IN  IF e.kind = "fields" THEN e ELSE ps

\* the entry of the field at p in its active scope
OwnEntry(t, f, p) == Entry(ActiveScope(t, f, p), NameAt(t, p))

\* the variables of the tree in the order of a pre-order walk: a node's
\* declaration arguments, then its directive variables, then its children
RECURSIVE VarsOf(_)
RECURSIVE VarsOfFields(_, _)
VarsOfFields(fields, i) ==
    IF i > Len(fields) THEN <<>>
    ELSE VarsOf(fields[i]) \o VarsOfFields(fields, i + 1)

VarsOf(t) ==
    LET dv == SelectSeq(t.Directives, LAMBDA d : HasPrefix(d.Template, <<"$">>))
    IN  [k \in DOMAIN t.Decl.Tokens |->
            [arg |-> t.Decl.Tokens[k].Arg, kind |-> t.Decl.Tokens[k].Kind]]
        \o [k \in DOMAIN dv |-> [arg |-> Tail(dv[k].Template), kind |-> BooleanKind]]
        \o VarsOfFields(t.Fields, 1)

\* the variables that occur with two different type annotations
Conflicting(t) ==
    LET vs == VarsOf(t)
    IN  {vs[i].arg : i \in {i \in DOMAIN vs :
                               \E j \in DOMAIN vs : /\ vs[j].arg = vs[i].arg
                                                    /\ vs[j].kind # vs[i].kind}}

\* "$arg: kind" for each variable at its first occurrence
FirstSeenHeader(t) ==
    LET vs == VarsOf(t)
        first == SelectSeq([i \in DOMAIN vs |-> [v |-> vs[i], i |-> i]],
                     LAMBDA e : \A j \in 1..(e.i - 1) : vs[j].arg # e.v.arg)
    IN  [k \in DOMAIN first |->
            <<"$">> \o first[k].v.arg \o <<":", " ">> \o first[k].v.kind]

\* the keyword with the parenthesised variable list, when there is one
HeaderText(op, hdr) ==
    IF hdr = <<>> THEN op
    ELSE op \o <<"(">> \o Join(hdr, <<",", " ">>) \o <<")">>

----------------------------------------------------------------------------
(* Claims checked under Spec *)

\* C1: the operation header declares each distinct variable exactly once as
\* "$arg: kind", in the order in which a pre-order walk of the tree first
\* meets the variables, so the text of a call is fixed by the type, the
\* keyword and the fieldset.
C1_HeaderFirstSeen ==
    (Called /\ res.err = NoErr) =>
        /\ res.hdr = FirstSeenHeader(res.tree)
        /\ HasPrefix(res.text, HeaderText(res.op, FirstSeenHeader(res.tree)))

\* C2: marshal fails with a type-conflict error that names the variable if
\* and only if some variable occurs in the tree with two different type
\* annotations, a directive variable counting as Boolean!; a variable that
\* is used several times with one annotation causes no error.
C2_TypeConflict ==
    Built =>
        /\ (res.err.type = ConflictError) <=> (Conflicting(res.tree) # {})
        /\ (res.err.type = ConflictError) => res.err.name \in Conflicting(res.tree)

C2_Witness ==
    /\ Built
    /\ res.err.type = ConflictError
    /\ \E i \in DOMAIN VarsOf(res.tree) :
           /\ VarsOf(res.tree)[i].arg = res.err.name
           /\ VarsOf(res.tree)[i].kind = BooleanKind

C2_WitnessRepeated ==
    /\ Built
    /\ res.err = NoErr
    /\ Len(VarsOf(res.tree)) > Len(res.hdr)

\* C5: a field whose Keep flag is set is written whenever its parent is
\* written, for every fieldset: no entry under its name stops it from being
\* written or makes the rendering fail at it, with or without children.
C5_KeepAlwaysWritten ==
    Rendering =>
        /\ \A p \in Inner(res.tree) :
              (FieldAt(res.tree, p).Keep /\ Parent(p) \in res.wr) => p \in res.wr
        /\ res.err # NoErr => ~FieldAt(res.tree, res.at).Keep

\* C6: with a nil fieldset every field of the tree is written, at every
\* depth and whatever its Keep flag, and rendering does not fail.
C6_NilWritesAll ==
    (Rendering /\ res.fields = NilV) =>
        /\ res.err = NoErr
        /\ res.wr = AllPaths(res.tree)

C6_Witness ==
    /\ Rendering /\ res.fields = NilV
    /\ \E p \in res.wr : Len(p) = 3 /\ ~FieldAt(res.tree, p).Keep
    /\ \E p \in res.wr : Len(p) = 2 /\ FieldAt(res.tree, p).Keep

\* C7: with an empty but non-nil fieldset, every written field other than
\* the synthetic root has its Keep flag set, at every depth and also directly
\* under the root.
C7_EmptyWritesOnlyKeep ==
    (Rendering /\ res.fields = FieldsV(<<>>) /\ res.err = NoErr) =>
        \A p \in res.wr \ {<<>>} : FieldAt(res.tree, p).Keep

\* C8: a field without Keep whose entry in the active non-nil scope is
\* absent or false is not written, and rendering does not fail at it, also
\* when it has children.
C8_AbsentOrFalseNotWritten ==
    (Rendering /\ res.fields.kind = "fields") =>
        \A p \in Inner(res.tree) :
            LET e == OwnEntry(res.tree, res.fields, p)
            IN  (/\ ~FieldAt(res.tree, p).Keep
                 /\ ActiveScope(res.tree, res.fields, p).kind = "fields"
                 /\ (e = NilV \/ e = BoolV(FALSE)))
                => /\ p \notin res.wr
                   /\ ~(res.err # NoErr /\ res.at = p)

\* the entry of the field at p asks for a leaf where there are children, or
\* for children where there are none
BadShape(t, f, p) ==
    LET e == OwnEntry(t, f, p)
    IN  \/ (e = BoolV(TRUE) /\ HasChildren(t, p))
        \/ (e.kind = "fields" /\ ~HasChildren(t, p))

\* the field at p is written by the rules of the renderer: it has Keep, or
\* its scope is nil, or its entry is true or a nested fieldset
RECURSIVE Selected(_, _, _)
Selected(t, f, p) ==
    \/ p = <<>>
    \/ /\ Selected(t, f, Parent(p))
       /\ \/ FieldAt(t, p).Keep
          \/ ActiveScope(t, f, p).kind = "nil"
          \/ Selects(OwnEntry(t, f, p))

\* C9: rendering fails with an error that names the field, and returns no
\* text, when the fieldset holds true for a field that has children or a
\* nested fieldset for a field that has none; no other entry makes it fail.
C9_ShapeErrors ==
    Rendering =>
        /\ (\E p \in Inner(res.tree) :
               /\ Selected(res.tree, res.fields, Parent(p))
               /\ ~FieldAt(res.tree, p).Keep
               /\ BadShape(res.tree, res.fields, p))
              => (res.err.type \in ShapeErrors /\ res.text = <<>>)
        /\ res.err # NoErr
              => /\ res.err.type \in ShapeErrors
                 /\ res.at # <<>>
                 /\ res.err.name = NameAt(res.tree, res.at)
                 /\ BadShape(res.tree, res.fields, res.at)

\* C10: when a field is written and the active scope holds a nested
\* fieldset S under its name, a child without Keep is written if and only
\* if S holds true or a nested fieldset under the child's name, whether or
\* not the field has Keep.
C10_NestedScopeSelects ==
    (Rendering /\ res.err = NoErr) =>
        \A p \in res.wr \ {<<>>} :
            LET S == OwnEntry(res.tree, res.fields, p)
            IN  S.kind = "fields" =>
                    \A i \in DOMAIN FieldAt(res.tree, p).Fields :
                        ~FieldAt(res.tree, Append(p, i)).Keep =>
                            (Append(p, i) \in res.wr
                                <=> Selects(Entry(S, NameAt(res.tree, Append(p, i)))))

\* every field on the path from the root to p has Keep and no entry under its
\* name in the fieldset f
KeptChain(t, f, p) ==
    \A k \in 1..Len(p) :
        /\ FieldAt(t, SubSeq(p, 1, k)).Keep
        /\ Entry(f, NameAt(t, SubSeq(p, 1, k))) = NilV

\* C11: a field that is written only because of Keep, at the end of a chain
\* of such fields of any length, hands the fieldset unchanged to its
\* children: a child without Keep is written if and only if the fieldset
\* holds true or a nested fieldset under the child's name.
C11_KeepHandsScopeDown ==
    (Rendering /\ res.err = NoErr /\ res.fields.kind = "fields") =>
        \A p \in res.wr \ {<<>>} :
            KeptChain(res.tree, res.fields, p) =>
                \A i \in DOMAIN FieldAt(res.tree, p).Fields :
                    ~FieldAt(res.tree, Append(p, i)).Keep =>
                        (Append(p, i) \in res.wr
                            <=> Selects(Entry(res.fields,
                                              NameAt(res.tree, Append(p, i)))))

\* what a written field emits for itself: "alias: ", the name, the
\* arguments "(name: $arg, ...)" in the order of the declaration, and one
\* " @type(if: $var)" for each directive
RECURSIVE EmitArgs(_, _)
EmitArgs(ts, i) ==
    IF i > Len(ts) THEN <<>>
    ELSE (IF i > 1 THEN <<",", " ">> ELSE <<>>)
             \o ts[i].Name \o <<":", " ", "$">> \o ts[i].Arg
             \o EmitArgs(ts, i + 1)

RECURSIVE EmitDirectives(_, _)
EmitDirectives(ds, i) ==
    IF i > Len(ds) THEN <<>>
    ELSE <<" ", "@">> \o ds[i].Type \o <<"(", "i", "f", ":", " ", "$">>
             \o ds[i].Token.Arg \o <<")">> \o EmitDirectives(ds, i + 1)

EmitOwn(f) ==
    (IF f.Decl.Alias # <<>> THEN f.Decl.Alias \o <<":", " ">> ELSE <<>>)
        \o f.Decl.Name
        \o (IF Len(f.Decl.Tokens) > 0
            THEN <<"(">> \o EmitArgs(f.Decl.Tokens, 1) \o <<")">>
            ELSE <<>>)
        \o EmitDirectives(f.Directives, 1)

\* the block of the children of the field at p: " {" and a newline, each
\* written child followed by one newline, and "}"; nothing for a field
\* without children
RECURSIVE EmitField(_, _, _)
RECURSIVE EmitChildren(_, _, _, _)
EmitChildren(t, p, wr, i) ==
    IF i > Len(FieldAt(t, p).Fields) THEN <<>>
    ELSE (IF Append(p, i) \in wr
          THEN EmitField(t, Append(p, i), wr) \o <<"\n">>
          ELSE <<>>)
             \o EmitChildren(t, p, wr, i + 1)

EmitBlock(t, p, wr) ==
    IF HasChildren(t, p)
    THEN <<" ", "{", "\n">> \o EmitChildren(t, p, wr, 1) \o <<"}">>
    ELSE <<>>

EmitField(t, p, wr) == EmitOwn(FieldAt(t, p)) \o EmitBlock(t, p, wr)

\* C12: the text of a successful call is the operation keyword, with the
\* parenthesised variable list only when that list is not empty, followed by
\* the block of the root, in which every written field emits its alias
\* prefix, its name with its arguments, its directive suffixes and the block
\* of its written children, each followed by exactly one newline.
C12_OutputFormat ==
    (Called /\ res.err = NoErr) =>
        res.text = HeaderText(res.op, res.hdr)
                       \o EmitBlock(res.tree, <<>>, res.wr)

C12_Witness ==
    /\ Called /\ res.err = NoErr
    /\ res.hdr # <<>>
    /\ \E p \in res.wr : FieldAt(res.tree, p).Decl.Alias # <<>>
    /\ \E p \in res.wr : Len(FieldAt(res.tree, p).Decl.Tokens) > 0
    /\ \E p \in res.wr : Len(FieldAt(res.tree, p).Directives) > 0
    /\ \E p \in res.wr : Len(p) = 2 /\ HasChildren(res.tree, p)

C12_WitnessNoVariables ==
    /\ Called /\ res.err = NoErr
    /\ res.hdr = <<>>
    /\ res.text = res.op \o <<" ", "{", "\n", "}">>

\* the tree a fresh build of the type rt produces
FreshTree(rt) == stack_top(walk(GoType(rt)).st)

\* C13: no marshal call modifies a tree held in the cache: after any
\* sequence of calls, the cached tree of a type, the name and the Keep flag
\* of its root included, equals the tree a fresh build of the type produces.
C13_CachedTreeUnmodified ==
    \A rt \in DOMAIN cache : cache[rt] = FreshTree(rt)

\* C15: a call that fails with a grammar error, a structural error or a
\* type-conflict error stores nothing: the cache after the failed call
\* equals the cache before it.
C15_FailedCallStoresNothing ==
    [][(res'.op # <<>> /\ res'.err.type \in BuildErrors \cup {ConflictError})
           => cache' = cache]_vars

\* the value handed to marshal is not a struct once its pointers and slices
\* are dereferenced
NotStructRoot == deref(GoType(typ)).kind # "struct"

\* C18: when the root is not a struct after dereferencing, marshal returns
\* the error of structNode before the visitor has seen any node (no field
\* was parsed or pushed), returns no text and stores nothing in the cache.
C18_NotStructRoot ==
    (Called /\ NotStructRoot) =>
        /\ res.err.type = "expecting struct type"
        /\ walk(GoType(typ)).st = <<>>
        /\ res.tree = ZeroField
        /\ res.text = <<>>
        /\ typ \notin DOMAIN cache

C18_Witness ==
    /\ Called /\ NotStructRoot
    /\ GoType(typ).kind = "ptr"
    /\ res.err.type = "expecting struct type"

C18_WitnessStructBehindPointers ==
    /\ Called /\ ~NotStructRoot
    /\ GoType(typ).kind = "ptr"
    /\ res.err = NoErr

----------------------------------------------------------------------------
(* Claims about Union, under SpecUnion.                                    *)

\* the content of a Fields value on the heap h: what a comparison of two
\* Fields values by content looks at
RECURSIVE Content(_, _)
Content(h, v) ==
    IF v.kind = "fields"
    THEN FieldsV([k \in DOMAIN h[v.id] |-> Content(h, h[v.id][k])])
    ELSE IF v.kind = "bool" THEN BoolV(v.b)
    ELSE NilV

\* the last step was a Union call that returned
Returned == un.called /\ ~un.panic

\* r is a union of a and b in the sense of C19, all three given by content
RECURSIVE IsUnion(_, _, _)
IsUnion(r, a, b) ==
    /\ DOMAIN r.m = DOMAIN a.m \cup DOMAIN b.m
    /\ \A k \in DOMAIN a.m \cap DOMAIN b.m :
          /\ (a.m[k].kind = "fields" /\ b.m[k].kind = "fields")
                => (r.m[k].kind = "fields" /\ IsUnion(r.m[k], a.m[k], b.m[k]))
          /\ (a.m[k].kind = "fields" /\ b.m[k].kind = "bool")
                => r.m[k] = a.m[k]
          /\ (a.m[k].kind = "bool" /\ b.m[k].kind = "fields")
                => r.m[k] = b.m[k]

\* C19: the Fields that Union(x, y) returns has the keys of x and the keys
\* of y; under a key where both hold a nested Fields it holds their union,
\* recursively; under a key where one holds a nested Fields and the other a
\* bool it holds the nested Fields, whichever argument it came from.
C19_UnionKeysAndNesting ==
    Returned =>
        IsUnion(Content(heap, un.r), Content(un.pre, un.x), Content(un.pre, un.y))

\* a call that merged two nested Fields, the one of y not empty
C19_Witness ==
    /\ Returned
    /\ un.x.kind = "fields" /\ un.y.kind = "fields" /\ un.x # un.y
    /\ \E k \in DOMAIN un.pre[un.x.id] \cap DOMAIN un.pre[un.y.id] :
          /\ un.pre[un.x.id][k].kind = "fields"
          /\ un.pre[un.y.id][k].kind = "fields"
          /\ DOMAIN un.pre[un.pre[un.y.id][k].id] # {}

\* a call with a bool in x and a nested Fields in y under one key
C19_WitnessBoolThenFields ==
    /\ Returned
    /\ un.x.kind = "fields" /\ un.y.kind = "fields"
    /\ \E k \in DOMAIN un.pre[un.x.id] \cap DOMAIN un.pre[un.y.id] :
          /\ un.pre[un.x.id][k].kind = "bool"
          /\ un.pre[un.y.id][k].kind = "fields"

\* a call with a nested Fields in x and a bool in y under one key
C19_WitnessFieldsThenBool ==
    /\ Returned
    /\ un.x.kind = "fields" /\ un.y.kind = "fields"
    /\ \E k \in DOMAIN un.pre[un.x.id] \cap DOMAIN un.pre[un.y.id] :
          /\ un.pre[un.x.id][k].kind = "fields"
          /\ un.pre[un.y.id][k].kind = "bool"

C20_WitnessNested ==
    /\ Returned /\ un.outer /\ un.x.kind = "fields"
    /\ \E k \in DOMAIN un.pre[un.x.id] : un.pre[un.x.id][k].kind = "fields"
    /\ Cardinality(DOMAIN un.pre[un.x.id]) = 2

----------------------------------------------------------------------------
(* Claims about the walk, under SpecWalkFair.                              *)

\* C17: every build terminates: for every struct type, also one that refers
\* to itself through a pointer or a slice, marshal eventually returns text
\* or an error.
C17_BuildTerminates == <>(wk.pc \in {"text", "error"})

----------------------------------------------------------------------------
(* Claims about concurrent calls, under SpecConc.                          *)

\* what the call returns when it runs alone, on an empty cache
AloneResults(wrapper, fields) ==
    {[text |-> o.text, err |-> o.err] :
        o \in marshal(typ, GoType(typ), wrapper, fields, <<>>, rev)}

\* C14: a call that runs while another call marshals the same type returns
\* what it returns when it runs alone, and its text begins with its own
\* operation keyword.
C14_ConcurrentCallsAsAlone ==
    \A g \in DOMAIN procs :
        procs[g].pc = "done" =>
            /\ [text |-> procs[g].text, err |-> procs[g].err]
                  \in AloneResults(procs[g].wrapper, procs[g].fields)
            /\ procs[g].err = NoErr => HasPrefix(procs[g].text, procs[g].wrapper)

\* C16: the tree of a type is built at most once, also when several
\* goroutines marshal the type before it is cached, and the cache entry of a
\* type is never replaced or removed.
C16_BuiltOnce ==
    /\ [](Len(objs) <= 1)
    /\ [][(typ \in DOMAIN ccache) => (ccache' = ccache)]_vars

\* the value the Fields v held under the key k on the heap h
LeafAt(h, v, k) == h[v.id][k]

\* the keys under which both arguments of the last call held a bool, the
\* two bools being different
DifferingLeaves ==
    IF un.x.kind = "fields" /\ un.y.kind = "fields"
    THEN {k \in DOMAIN un.pre[un.x.id] \cap DOMAIN un.pre[un.y.id] :
             /\ LeafAt(un.pre, un.x, k).kind = "bool"
             /\ LeafAt(un.pre, un.y, k).kind = "bool"
             /\ LeafAt(un.pre, un.x, k).b # LeafAt(un.pre, un.y, k).b}
    ELSE {}

\* C21 as stated: under a key where both arguments of Union hold a bool and
\* the two bools differ, the result holds the bool of the first argument.
C21_FirstLeafKept ==
    Returned =>
        \A k \in DifferingLeaves :
            LeafAt(heap, un.r, k) = LeafAt(un.pre, un.x, k)

\* C21 as amended: under such a key the result holds the bool of the second
\* argument.
C21_SecondLeafStored ==
    Returned =>
        \A k \in DifferingLeaves :
            LeafAt(heap, un.r, k) = LeafAt(un.pre, un.y, k)

\* a call has returned whose arguments held different bools under one key
C21_Witness == Returned /\ DifferingLeaves # {}

----------------------------------------------------------------------------
(* FieldsFromDelimitedList (fields.go).  The maps it makes are fresh and    *)
(* held by one parent each, so a map is modelled by its content: FieldsV.   *)

\* strings.Index(s, sep), sep not empty: the position of the first
\* occurrence of sep at or after i; 0 when there is none (Go: -1)
RECURSIVE IndexFrom(_, _, _)
IndexFrom(s, sep, i) ==
    IF i + Len(sep) - 1 > Len(s) THEN 0
    ELSE IF SubSeq(s, i, i + Len(sep) - 1) = sep THEN i
    ELSE IndexFrom(s, sep, i + 1)

strings_Index(s, sep) == IndexFrom(s, sep, 1)

\* strings.Count(s, sep), sep not empty: the occurrences that do not overlap
RECURSIVE strings_Count(_, _)
strings_Count(s, sep) ==
    With(strings_Index(s, sep), LAMBDA i :
        IF i = 0 THEN 0
        ELSE 1 + strings_Count(From(s, i + Len(sep)), sep))

\* strings.Split(s, sep), sep not empty
RECURSIVE strings_Split(_, _)
strings_Split(s, sep) ==
    With(strings_Index(s, sep), LAMBDA i :
        IF i = 0 THEN <<s>>
        ELSE <<SubSeq(s, 1, i - 1)>> \o strings_Split(From(s, i + Len(sep)), sep))

\* addRawFieldToFields(raw, delimiter, fields): the content of fields when
\* the call has returned.  split is a position from 1, so raw[:split] is
\* the first split - 1 characters and raw[split+1:] starts at split + 1:
\* one character after the start of the delimiter, whatever its length.
RECURSIVE addRawFieldToFields(_, _, _)
addRawFieldToFields(raw, delimiter, fields) ==
    IF strings_Count(raw, delimiter) > 0
    THEN With(strings_Index(raw, delimiter), LAMBDA split :
         With(SubSeq(raw, 1, split - 1), LAMBDA current :
         With(From(raw, split + 1), LAMBDA leftover :
         With(IF Lookup(fields, current).kind = "fields"
              THEN fields.m[current] ELSE FieldsV(<<>>), LAMBDA inner :
             FieldsV((current :> addRawFieldToFields(leftover, delimiter, inner))
                     @@ fields.m)))))
    ELSE FieldsV((raw :> BoolV(TRUE)) @@ fields.m)

\* the loop of FieldsFromDelimitedList over rawFields, from entry i on
RECURSIVE FieldsFromDelimitedListLoop(_, _, _, _)
FieldsFromDelimitedListLoop(rawFields, subFieldDelimiter, i, fields) ==
    IF i > Len(rawFields) THEN fields
    ELSE FieldsFromDelimitedListLoop(rawFields, subFieldDelimiter, i + 1,
             addRawFieldToFields(rawFields[i], subFieldDelimiter, fields))

FieldsFromDelimitedList(list, fieldDelimiter, subFieldDelimiter) ==
    IF list = <<>> THEN NilV
    ELSE FieldsFromDelimitedListLoop(strings_Split(list, fieldDelimiter),
                                     subFieldDelimiter, 1, FieldsV(<<>>))

----------------------------------------------------------------------------
(* Specification SpecList: FieldsFromDelimitedList applied to one list.    *)

\* Largest number of entries of a list, and of names of one entry.
MaxList == 2
MaxPath == 2

\* the names, and the delimiters the caller chooses: of one character and
\* of two
PathNames == {<<"a">>, <<"b">>}
FieldDelimiters == {<<",">>, <<";", ";">>}
SubFieldDelimiters == {<<".">>, <<":", ":">>}

\* the entries: one to MaxPath names
ListEntries == UNION {[1..n -> PathNames] : n \in 1..MaxPath}

\* the lists of entries: none to MaxList entries
EntryLists == UNION {[1..n -> ListEntries] : n \in 0..MaxList}

\* the text of a list of entries written with the two delimiters
RECURSIVE ListText(_, _, _)
ListText(es, fd, sd) ==
    IF es = <<>> THEN <<>>
    ELSE IF Len(es) = 1 THEN Join(es[1], sd)
    ELSE Join(es[1], sd) \o fd \o ListText(Tail(es), fd, sd)

\* nothing of the package but the helper function is in use
OnlyHelper ==
    /\ rev = "A"
    /\ typ = [shape |-> "leaf", k |-> <<>>]
    /\ fs = NilV
    /\ cache = <<>>
    /\ res = NoCall
    /\ tagIn = <<>>
    /\ tagOut = NotCalled
    /\ heap = <<>>
    /\ un = NoUnion
    /\ wk = NoWalk(typ)
    /\ procs = <<>>
    /\ objs = <<>>
    /\ ccache = <<>>

notHelper == <<rev, typ, fs, cache, res, tagIn, tagOut, heap, un, wk, procs, objs, ccache>>

InitList ==
    /\ OnlyHelper
    /\ \E es \in EntryLists, fd \in FieldDelimiters, sd \in SubFieldDelimiters :
           call = [fn |-> "FieldsFromDelimitedList",
                   in |-> [list |-> ListText(es, fd, sd), fieldDelimiter |-> fd,
                           subFieldDelimiter |-> sd],
                   out |-> <<>>, done |-> FALSE]

CallFieldsFromDelimitedList ==
    /\ call.fn = "FieldsFromDelimitedList"
    /\ ~call.done
    /\ call' = [call EXCEPT
                   !.out = FieldsFromDelimitedList(call.in.list, call.in.fieldDelimiter,
                                                   call.in.subFieldDelimiter),
                   !.done = TRUE]
    /\ UNCHANGED notHelper

NextList == CallFieldsFromDelimitedList

SpecList == InitList /\ [][NextList]_vars

\* the list handed to FieldsFromDelimitedList has been turned into a value
ListDone == call.fn = "FieldsFromDelimitedList" /\ call.done

\* the entries of the list, each as its sequence of names
EntriesOf(c) ==
    {strings_Split(c.in.list, c.in.fieldDelimiter)[i] :
        i \in 1..Len(strings_Split(c.in.list, c.in.fieldDelimiter))}

PathsOf(c) == {strings_Split(e, c.in.subFieldDelimiter) : e \in EntriesOf(c)}

\* v holds nested fieldsets along the path and `true` at its end
RECURSIVE EndsInTrue(_, _)
EndsInTrue(v, path) ==
    /\ v.kind = "fields"
    /\ path[1] \in DOMAIN v.m
    /\ IF Len(path) = 1 THEN v.m[path[1]] = BoolV(TRUE)
       ELSE EndsInTrue(v.m[path[1]], Tail(path))

\* the paths of v that end in a value that is no fieldset, or in an empty
\* fieldset
RECURSIVE LeafPaths(_)
LeafPaths(v) ==
    UNION {IF v.m[k].kind = "fields" /\ DOMAIN v.m[k].m # {}
           THEN {<<k>> \o p : p \in LeafPaths(v.m[k])}
           ELSE {<<k>>} : k \in DOMAIN v.m}

\* C22: for delimiters of any length FieldsFromDelimitedList returns nil
\* for the empty list and otherwise one fieldset that holds, for every
\* entry p1<sub>...<sub>pn, the nested path p1 -> ... -> pn ending in true,
\* and nothing else.
C22_PathsOfEntries ==
    ListDone =>
        IF call.in.list = <<>> THEN call.out = NilV
        ELSE /\ call.out.kind = "fields"
             /\ \A p \in PathsOf(call) : EndsInTrue(call.out, p)
             /\ LeafPaths(call.out) = PathsOf(call)

\* the same, for the lists in which no entry is a prefix of another and
\* the subfield delimiter has one character
C22_OneCharacterNoPrefix ==
    (/\ ListDone
     /\ Len(call.in.subFieldDelimiter) = 1
     /\ \A p, q \in PathsOf(call) : p # q => ~HasPrefix(p, q)) =>
        IF call.in.list = <<>> THEN call.out = NilV
        ELSE /\ call.out.kind = "fields"
             /\ \A p \in PathsOf(call) : EndsInTrue(call.out, p)
             /\ LeafPaths(call.out) = PathsOf(call)

\* the same, no entry being a prefix of another, for every delimiter
C22_NoPrefix ==
    (/\ ListDone
     /\ \A p, q \in PathsOf(call) : p # q => ~HasPrefix(p, q)) =>
        IF call.in.list = <<>> THEN call.out = NilV
        ELSE /\ call.out.kind = "fields"
             /\ \A p \in PathsOf(call) : EndsInTrue(call.out, p)
             /\ LeafPaths(call.out) = PathsOf(call)

----------------------------------------------------------------------------
(* The stack of the visit function during the walk (SpecWalk). *)

\* the field of the node n with the fields of the nodes below n attached to
\* it in the order of their declaration, and so on below them
RECURSIVE TreeOf(_)
TreeOf(n) ==
    With(parseTag(n.Tag).f, LAMBDA f :
    With(walkerBelow(n), LAMBDA below :
        [f EXCEPT !.Decl.Name = IF @ = <<>> THEN toLowerCamelCase(n.Name) ELSE @,
                  !.Fields = [i \in DOMAIN below |-> TreeOf(below[i])]]))

\* the root node of the walk
RootNode == structNode(WalkType(wk.t)).n

\* a field without the fields attached to it
Bare(f) == [f EXCEPT !.Fields = <<>>]

\* the stack holds one field for each call of walker that has not returned,
\* the root at its bottom; after the walk it holds the tree of the root
StackShape ==
    /\ wk.pc = "walking" =>
           /\ Len(wk.st) = Len(wk.frames)
           /\ Len(wk.st) >= 1
           /\ Bare(wk.st[1]) = Bare(TreeOf(RootNode))
    /\ wk.pc \in {"walked", "text"} => wk.st = <<TreeOf(RootNode)>>

\* a call of walker that visits its node pushes one field and leaves the
\* fields below it alone
EntryPushesOne ==
    (wk'.pc = "walking" /\ Len(wk'.frames) = Len(wk.frames) + 1) =>
        /\ Len(wk'.st) = Len(wk.st) + 1
        /\ SubSeq(wk'.st, 1, Len(wk.st)) = wk.st

\* a call of walker that returns without error pops the field it pushed and
\* appends it to the fields of the one below; the root stays
ExitPopsOne ==
    (/\ wk.pc = "walking"
     /\ wk'.pc \in {"walking", "walked"}
     /\ Len(wk'.frames) = Len(wk.frames) - 1) =>
        IF Len(wk.frames) = 1 THEN wk'.st = wk.st
        ELSE wk'.st = [SubSeq(wk.st, 1, Len(wk.st) - 1) EXCEPT
                          ![Len(wk.st) - 1].Fields = Append(@, wk.st[Len(wk.st)])]

\* C23: in a walk every entry pushes one field and is matched by one exit
\* that pops it; once the root is pushed the stack is never empty and the
\* root is never popped; when the walk ends the stack holds the root alone,
\* and every other visited field is attached once, to its parent, the
\* fields of one parent in the order of their declaration.
C23_StackDiscipline ==
    /\ []StackShape
    /\ [][EntryPushesOne /\ ExitPopsOne]_vars

\* a walk has ended in which a field has several fields below it, one of
\* them with fields of its own
C23_Witness ==
    /\ wk.pc = "walked"
    /\ Len(wk.st) = 1
    /\ \E m \in DOMAIN wk.st[1].Fields :
           /\ Len(wk.st[1].Fields[m].Fields) >= 2
           /\ \E i \in DOMAIN wk.st[1].Fields[m].Fields :
                  wk.st[1].Fields[m].Fields[i].Fields # <<>>

----------------------------------------------------------------------------
(* Specification SpecSplit: splitTag applied to one tag. *)

\* Largest length of a tag handed to splitTag.
MaxTag == 4

\* the characters of the tags: a letter, the comma and the parentheses
TagChars == {"a", ",", "(", ")"}

SplitTags == UNION {[1..n -> TagChars] : n \in 0..MaxTag}

InitSplit ==
    /\ OnlyHelper
    /\ \E tag \in SplitTags :
           call = [fn |-> "splitTag", in |-> tag, out |-> <<>>, done |-> FALSE]

CallSplitTag ==
    /\ call.fn = "splitTag"
    /\ ~call.done
    /\ call' = [call EXCEPT !.out = splitTag(call.in), !.done = TRUE]
    /\ UNCHANGED notHelper

NextSplit == CallSplitTag

SpecSplit == InitSplit /\ [][NextSplit]_vars

\* the tag handed to splitTag has been split
SplitDone == call.fn = "splitTag" /\ call.done

\* the number of parentheses open before the character i of the tag
DepthAt(tag, i) ==
    Cardinality({j \in 1..(i - 1) : tag[j] = "("})
        - Cardinality({j \in 1..(i - 1) : tag[j] = ")"})

\* no parenthesis of the tag closes one that was not opened
WellNested(tag) == \A i \in 1..(Len(tag) + 1) : DepthAt(tag, i) >= 0

\* the commas of the tag outside every parenthesised group
OuterCommas(tag) == {i \in DOMAIN tag : tag[i] = "," /\ DepthAt(tag, i) = 0}

\* the pieces of the tag from the character i on, cut at the positions seps
RECURSIVE PiecesFrom(_, _, _)
PiecesFrom(tag, seps, i) ==
    IF \E n \in seps : n >= i
    THEN With(CHOOSE n \in seps : n >= i /\ \A k \in seps : k >= i => n <= k,
              LAMBDA n : <<SubSeq(tag, i, n - 1)>> \o PiecesFrom(tag, seps, n + 1))
    ELSE <<SubSeq(tag, i, Len(tag))>>

\* C24: splitTag cuts a tag at exactly the commas outside every
\* parenthesised group, however deep the parentheses are nested: a comma at
\* depth 1 or more is no separator and a comma at depth 0 is one.
C24_SplitAtDepthZero ==
    (SplitDone /\ WellNested(call.in)) =>
        call.out = PiecesFrom(call.in, OuterCommas(call.in), 1)

\* the same, for the tags whose parentheses are not nested
C24_NotNested ==
    (/\ SplitDone
     /\ WellNested(call.in)
     /\ \A i \in 1..(Len(call.in) + 1) : DepthAt(call.in, i) <= 1) =>
        call.out = PiecesFrom(call.in, OuterCommas(call.in), 1)

----------------------------------------------------------------------------
(* The text of a directive (Spec). *)

\* " @<type>(if: <arg>)" with the argument as the tag has it
DirectiveAsWritten(d) ==
    <<" ", "@">> \o d.Type \o <<"(", "i", "f", ":", " ">> \o d.Template \o <<")">>

\* the skip and include directives of the fields the call wrote
WrittenDirectives ==
    UNION {{FieldAt(res.tree, p).Directives[k] :
               k \in {k \in DOMAIN FieldAt(res.tree, p).Directives :
                         FieldAt(res.tree, p).Directives[k].Type
                             \in {directiveSkip, directiveInclude}}} :
           p \in res.wr}

\* C25: a skip or include directive of a written field is in the text as
\* " @<type>(if: <arg>)", <arg> being the argument as the tag has it: "$var"
\* for a variable, the bare literal for an argument without "$"; a literal
\* carries no token and adds no variable to the header.
C25_DirectiveAsWritten ==
    (Called /\ res.err = NoErr) =>
        /\ \A d \in WrittenDirectives :
               /\ strings_Index(res.text, DirectiveAsWritten(d)) > 0
               /\ ~HasPrefix(d.Template, <<"$">>) => d.Token = ZeroToken
        /\ Len(res.hdr) = Len(FirstSeenHeader(res.tree))

\* the same, for the directives whose argument is a variable
C25_VariableAsWritten ==
    (Called /\ res.err = NoErr) =>
        /\ \A d \in WrittenDirectives :
               HasPrefix(d.Template, <<"$">>) =>
                   strings_Index(res.text, DirectiveAsWritten(d)) > 0
        /\ Len(res.hdr) = Len(FirstSeenHeader(res.tree))

----------------------------------------------------------------------------
(* The name of a field (Spec). *)

\* the node of the field at the path p below the node n
RECURSIVE NodeAt(_, _)
NodeAt(n, p) == IF p = <<>> THEN n ELSE NodeAt(walkerBelow(n)[Head(p)], Tail(p))

\* the clauses of a tag, without the space around them
TagClauses(tag) ==
    With(PiecesFrom(tag, OuterCommas(tag), 1), LAMBDA cs :
        {TrimSpace(cs[i]) : i \in DOMAIN cs})

\* the names a tag gives: its clauses that are a bare identifier other than
\* keep, and the names of its clauses that are a declaration with arguments
ExplicitNames(tag) ==
    {c \in TagClauses(tag) : c # <<>> /\ c # keepTag /\ \A i \in DOMAIN c : IsWord(c[i])}
        \cup {SubSeq(c, 1, IndexOf(c, "(") - 1) :
                 c \in {c \in TagClauses(tag) :
                           c # <<>> /\ c[1] # "@" /\ IndexOf(c, "(") > 1}}

\* the name of the field of the node n: the name its tag gives, or the
\* normalized name of the struct field
NameOfNode(n) ==
    IF ExplicitNames(n.Tag) = {} THEN toLowerCamelCase(n.Name)
    ELSE CHOOSE name \in ExplicitNames(n.Tag) : TRUE

\* C26: the name of a field is the explicit name of its tag (a bare
\* identifier or the name of a declaration with arguments), unchanged, when
\* the tag has one, and otherwise the lower-camel-case form of the name of
\* the struct field, also under a tag of keep, @alias, @skip and @include
\* clauses only; a written field is in the text under that name.
C26_RenderedName ==
    Built =>
        \A p \in Inner(res.tree) :
            /\ Cardinality(ExplicitNames(NodeAt(structNode(GoType(typ)).n, p).Tag)) <= 1
            /\ NameAt(res.tree, p) = NameOfNode(NodeAt(structNode(GoType(typ)).n, p))
            /\ (res.err = NoErr /\ p \in res.wr) =>
                   strings_Index(res.text,
                       <<"\n">> \o EmitOwn([FieldAt(res.tree, p) EXCEPT !.Decl.Name =
                           NameOfNode(NodeAt(structNode(GoType(typ)).n, p))])) > 0

\* a call has written a field named by its tag, a field named after a
\* struct field of several capitals, and a field whose tag is an alias only
C26_Witness ==
    /\ Called /\ res.err = NoErr
    /\ typ.shape = "names"
    /\ \E p \in res.wr : p # <<>> /\ NodeAt(structNode(GoType(typ)).n, p).Tag = <<"n">>
                         /\ NameAt(res.tree, p) = <<"n">>
    /\ \E p \in res.wr : p # <<>> /\ NodeAt(structNode(GoType(typ)).n, p).Tag = <<"X", "y">>
                         /\ NameAt(res.tree, p) = <<"X", "y">>
    /\ \E p \in res.wr : p # <<>> /\ NodeAt(structNode(GoType(typ)).n, p).Name = <<"I", "D">>
                         /\ NameAt(res.tree, p) = <<"i", "d">>

\* a call has written a field whose tag holds an alias only, under the
\* normalized name of its struct field, and one named by its declaration
C26_WitnessAliasOnly ==
    /\ Called /\ res.err = NoErr
    /\ \E p \in res.wr : /\ p # <<>>
                         /\ NodeAt(structNode(GoType(typ)).n, p).Tag = tagAliasZ
                         /\ NameAt(res.tree, p) = <<"n">>
    /\ \E p \in res.wr : /\ p # <<>>
                         /\ NodeAt(structNode(GoType(typ)).n, p).Tag = tagDeclI
                         /\ NameAt(res.tree, p) = <<"m">>

----------------------------------------------------------------------------
(* Specification SpecCamel: toLowerCamelCase applied to one string. *)

\* Largest length of a string handed to toLowerCamelCase.
MaxName == 4

\* the characters of the strings: letters, a digit and the four separators
Separators == {" ", "-", "_", "."}
NameChars == {"a", "I", "D", "1"} \cup Separators

CamelInputs == UNION {[1..n -> NameChars] : n \in 0..MaxName}

InitCamel ==
    /\ OnlyHelper
    /\ \E in \in CamelInputs :
           call = [fn |-> "toLowerCamelCase", in |-> in, out |-> <<>>, done |-> FALSE]

CallToLowerCamelCase ==
    /\ call.fn = "toLowerCamelCase"
    /\ ~call.done
    /\ call' = [call EXCEPT !.out = toLowerCamelCase(call.in), !.done = TRUE]
    /\ UNCHANGED notHelper

NextCamel == CallToLowerCamelCase

SpecCamel == InitCamel /\ [][NextCamel]_vars

\* the string handed to toLowerCamelCase has been transformed
CamelDone == call.fn = "toLowerCamelCase" /\ call.done

\* what becomes of the character i of the string in: the first character in
\* lower case; after it nothing for a separator, the upper case of a
\* character that follows a separator, and any other character as it is
CamelChar(in, i) ==
    IF i = 1 THEN <<ToLower(in[1])>>
    ELSE IF in[i] \in Separators THEN <<>>
    ELSE IF i > 2 /\ in[i - 1] \in Separators THEN <<ToUpper(in[i])>>
    ELSE <<in[i]>>

RECURSIVE CamelFrom(_, _)
CamelFrom(in, i) ==
    IF i > Len(in) THEN <<>> ELSE CamelChar(in, i) \o CamelFrom(in, i + 1)

\* C27: toLowerCamelCase turns the first character into lower case, drops
\* every run of separators (space, hyphen, underscore, period) after it and
\* turns the character after the run into upper case, and leaves every other
\* character as it is; "ID" gives "id" and the empty string the empty string.
C27_LowerCamelCase ==
    CamelDone =>
        call.out = IF call.in = <<"I", "D">> THEN <<"i", "d">>
                   ELSE CamelFrom(call.in, 1)

\* a string with a run of two separators before a letter has been
\* transformed
C27_Witness ==
    /\ CamelDone
    /\ call.in = <<"D", "-", " ", "a">>
    /\ call.out = <<"d", "A">>

\* "ID" has been transformed
C27_WitnessID ==
    /\ CamelDone
    /\ call.in = <<"I", "D">>
    /\ call.out = <<"i", "d">>

----------------------------------------------------------------------------
(* Specification SpecFold: a caller that makes three Fields and folds      *)
(* Union over them as TestUnion does: actual = Input[0], then              *)
(* actual = Union(actual, Input[i]) for the others, in any order and any   *)
(* number of times.  Union returns its first argument, so actual stays the *)
(* first map; the other two are only ever passed as second argument.       *)

\* the map the fold holds in actual, and the maps it passes as y
Actual == URef(1)
Inputs == {URef(2), URef(3)}

\* no call yet; start is the heap at the first call
NoFold == [x |-> UNil, y |-> UNil, r |-> UNil, panic |-> FALSE,
           called |-> FALSE, pre |-> <<>>, outer |-> FALSE, start |-> <<>>]

InitFold ==
    /\ rev = "A"
    /\ typ = [shape |-> "leaf", k |-> <<>>]
    /\ fs = NilV
    /\ cache = <<>>
    /\ res = NoCall
    /\ tagIn = <<>>
    /\ tagOut = NotCalled
    /\ heap = <<<<>>, <<>>, <<>>>>
    /\ un = NoFold
    /\ wk = NoWalk(typ)
    /\ procs = <<>>
    /\ objs = <<>>
    /\ ccache = <<>>
    /\ call = NoHelper

\* actual = Union(actual, Input[i])
CallFold ==
    \E y \in Inputs, ord \in UOrders :
        /\ ~un.panic
        /\ With(Union(heap, Actual, y, ord), LAMBDA u :
               /\ heap' = u.h
               /\ un' = [x |-> Actual, y |-> y, r |-> u.r, panic |-> u.panic,
                         called |-> TRUE, pre |-> heap, outer |-> FALSE,
                         start |-> IF un.called THEN un.start ELSE heap])
        /\ UNCHANGED <<rev, typ, fs, cache, res, tagIn, tagOut, wk, procs, objs, ccache, call>>

NextFold == SetBool \/ SetMap \/ CallFold

SpecFold == InitFold /\ [][NextFold]_vars

\* C28: a Fields that is only ever passed to Union as second argument is
\* not modified: after Union(x, y) and any further calls that take the
\* returned Fields as first argument, y and every Fields nested in y have
\* the content they had before the first call.
C28_SecondArgumentUntouched ==
    Returned =>
        \A y \in Inputs : Content(heap, y) = Content(un.start, y)

\* the same after the first call of the fold
C28_AfterOneCall ==
    (Returned /\ un.pre = un.start) =>
        \A y \in Inputs : Content(heap, y) = Content(un.start, y)

----------------------------------------------------------------------------
(* Union on the nil Fields (SpecUnion). *)

\* C29: Union(x, y) returns a Fields without a runtime failure for every
\* pair of Fields, also when x is the nil Fields that
\* FieldsFromDelimitedList returns for the empty list and y is not empty.
C29_UnionNeverPanics == un.called => ~un.panic

\* the same, for a first argument that is a map
C29_MapNeverPanics == (un.called /\ un.x.kind = "fields") => ~un.panic

----------------------------------------------------------------------------
(* The order of the entries of a list (SpecList). *)

\* the entries of the list of the call, in the order of the list
EntrySeq(c) == strings_Split(c.in.list, c.in.fieldDelimiter)

\* the list with its entries in the order perm
Reordered(c, perm) ==
    Join([i \in DOMAIN perm |-> EntrySeq(c)[perm[i]]], c.in.fieldDelimiter)

\* C30: the result of FieldsFromDelimitedList does not depend on the order
\* of the entries: every permutation of the entries of a list gives the
\* same fieldset, also when one entry is a prefix path of another.
C30_OrderOfEntries ==
    ListDone =>
        \A perm \in Permutations(1..Len(EntrySeq(call))) :
            FieldsFromDelimitedList(Reordered(call, perm), call.in.fieldDelimiter,
                                    call.in.subFieldDelimiter) = call.out

\* the same, for the lists in which no entry is a prefix path of another
C30_NoPrefixOrder ==
    (/\ ListDone
     /\ \A p, q \in PathsOf(call) : p # q => ~HasPrefix(p, q)) =>
        \A perm \in Permutations(1..Len(EntrySeq(call))) :
            FieldsFromDelimitedList(Reordered(call, perm), call.in.fieldDelimiter,
                                    call.in.subFieldDelimiter) = call.out

====
